---- MODULE Spec2Model ----
(***************************************************************************)
(* Brochure generator with booklet imposition (src/brochure_generator.py). *)
(*                                                                         *)
(* The state machines of this module:                                      *)
(*   SpecImposition  the imposition engine (BookletImposition), a pure     *)
(*                   function of the page count, called on bounded inputs; *)
(*   Spec            the editor (BrochureGeneratorApp): the brochure, the  *)
(*                   navigation state, the preview canvas, the exported    *)
(*                   PDF;                                                  *)
(*   SpecData        a BrochureData built directly by its constructor;     *)
(*   SpecRender      one page built up and composited by render_page;      *)
(*   SpecRenderFaults  the same with colours, gradients and image sources  *)
(*                   that may be malformed;                                *)
(*   SpecEdit        the editor with its element handlers: elements added, *)
(*                   selected in the list, moved between layers and        *)
(*                   deleted, between navigation, page-count changes and   *)
(*                   templates;                                            *)
(*   SpecBrowse      a document browsed from its first page to its last in *)
(*                   spread or print-layout preview;                       *)
(*   SpecRerender    one page rendered repeatedly;                         *)
(*   SpecExport      the two batch exports over a document whose pages may *)
(*                   fail to render;                                       *)
(*   SpecHex, SpecAlpha, SpecPercent, SpecGradient, SpecFit, SpecText      *)
(*                   the renderer's pure computations called on bounded    *)
(*                   arguments.                                            *)
(* Each specification leaves the variables of the others at their initial  *)
(* values.                                                                 *)
(***************************************************************************)
EXTENDS Integers, Sequences, FiniteSets, TLC

VARIABLES
    \* ---- imposition engine calls
    eng_n,            \* the page_count argument
    eng_order,        \* outcome of the last get_imposition_order(eng_n) call
    eng_order_prev,   \* outcome of the call before it
    eng_spreads,      \* outcome of the last get_spread_pairs(eng_n) call
    eng_spreads_prev, \* outcome of the call before it
    eng_folded,       \* page indices in reading order after folding eng_order
    \* ---- editor (BrochureGeneratorApp)
    brochure,            \* self.brochure: page_count, pages, template_name
    current_page_index,  \* self.current_page_index
    preview_mode,        \* self.preview_mode
    canvas_size,         \* <<winfo_width(), winfo_height()>> of the preview canvas
    display,             \* what the preview canvas shows
    page_label,          \* text of the navigation label
    pdf,                 \* the pages of the last PDF file written
    selected_element,    \* self.selected_element
    elements_listbox,    \* the rows of self.elements_listbox
    props_element,       \* the element the properties panel is bound to
    \* ---- page compositor (BrochureRenderer.render_page)
    ren_page,         \* the PageData being edited and rendered
    ren_out,          \* result of the last render_page(ren_page)
    \* ---- batch exports (_export_images, _export_pdf)
    image_files,      \* page numbers of the PNG files written by the last export
    export_message,   \* the message boxes shown by the last export
    \* ---- calls of the renderer's pure computations
    call_args,        \* the arguments of the call
    call_out          \* its outcome

engVars == <<eng_n, eng_order, eng_order_prev, eng_spreads, eng_spreads_prev, eng_folded>>

appVars == <<brochure, current_page_index, preview_mode, canvas_size, display, page_label, pdf,
            selected_element, elements_listbox, props_element>>

renVars == <<ren_page, ren_out>>

expVars == <<image_files, export_message>>

callVars == <<call_args, call_out>>

vars == <<engVars, appVars, renVars, expVars, callVars>>

(***************************************************************************)
(* Bounds                                                                  *)
(***************************************************************************)
\* largest page count handed to the imposition engine
MaxPageCount == 12
\* largest page_count, and longest initial page list, handed to the
\* BrochureData constructor
MaxConstructorPages == 9
\* most elements put on the page handed to render_page
MaxElements == 3

(***************************************************************************)
(* BookletImposition                                                       *)
(***************************************************************************)
\* The page counts with a literal table (the branches of both functions).
FirstClassCounts == {1, 2, 4, 8}

\* range(0, page_count, 2) has ceil(page_count / 2) elements
SequentialPairCount(page_count) == (page_count + 1) \div 2

\* Faulty variant: the front side of the inner sheet of eight pages printed
\* with its halves swapped.
get_imposition_order_mirrored(page_count) ==
    IF page_count = 1 THEN << <<0, -1>> >>
    ELSE IF page_count = 2 THEN << <<1, 0>> >>
    ELSE IF page_count = 4 THEN << <<3, 0>>, <<1, 2>> >>
    ELSE IF page_count = 8 THEN << <<7, 0>>, <<1, 6>>, <<2, 5>>, <<3, 4>> >>
    ELSE [k \in 1..SequentialPairCount(page_count) |->
            LET i == 2 * (k - 1)
            IN  IF i + 1 < page_count THEN <<i, i + 1>> ELSE <<i, -1>>]

\* Faulty variant: the back side of the outer sheet printed with its halves swapped.
get_imposition_order_swapped(page_count) ==
    IF page_count = 1 THEN << <<0, -1>> >>
    ELSE IF page_count = 2 THEN << <<1, 0>> >>
    ELSE IF page_count = 4 THEN << <<3, 0>>, <<2, 1>> >>
    ELSE IF page_count = 8 THEN << <<7, 0>>, <<6, 1>>, <<5, 2>>, <<3, 4>> >>
    ELSE [k \in 1..SequentialPairCount(page_count) |->
            LET i == 2 * (k - 1)
            IN  IF i + 1 < page_count THEN <<i, i + 1>> ELSE <<i, -1>>]

\* Faulty variant: the single print side of a 2-page brochure laid out in reading
\* order (front, back) instead of (back, front).
get_imposition_order_reading(page_count) ==
    IF page_count = 1 THEN << <<0, -1>> >>
    ELSE IF page_count = 2 THEN << <<0, 1>> >>
    ELSE IF page_count = 4 THEN << <<3, 0>>, <<1, 2>> >>
    ELSE IF page_count = 8 THEN << <<7, 0>>, <<1, 6>>, <<5, 2>>, <<3, 4>> >>
    ELSE [k \in 1..SequentialPairCount(page_count) |->
            LET i == 2 * (k - 1)
            IN  IF i + 1 < page_count THEN <<i, i + 1>> ELSE <<i, -1>>]

\* Faulty variant: the sequential fallback pairs an odd leftover page with the
\* (non-existent) next index instead of -1.
get_imposition_order_noblank(page_count) ==
    IF page_count = 1 THEN << <<0, -1>> >>
    ELSE IF page_count = 2 THEN << <<1, 0>> >>
    ELSE IF page_count = 4 THEN << <<3, 0>>, <<1, 2>> >>
    ELSE IF page_count = 8 THEN << <<7, 0>>, <<1, 6>>, <<5, 2>>, <<3, 4>> >>
    ELSE [k \in 1..SequentialPairCount(page_count) |->
            LET i == 2 * (k - 1) IN <<i, i + 1>>]

\* get_imposition_order: the (left, right) page indices of each print side,
\* -1 for a blank half.
get_imposition_order(page_count) ==
    IF page_count = 1 THEN << <<0, -1>> >>
    ELSE IF page_count = 2 THEN << <<1, 0>> >>
    ELSE IF page_count = 4 THEN << <<3, 0>>, <<1, 2>> >>
    ELSE IF page_count = 8 THEN << <<7, 0>>, <<1, 6>>, <<5, 2>>, <<3, 4>> >>
    ELSE [k \in 1..SequentialPairCount(page_count) |->
            LET i == 2 * (k - 1)
            IN  IF i + 1 < page_count THEN <<i, i + 1>> ELSE <<i, -1>>]

\* f"Pages {i+1}-{i+2}" and f"Page {i+1}"
PagesLabel(i) == "Pages " \o ToString(i + 1) \o "-" \o ToString(i + 2)
PageLabel(i) == "Page " \o ToString(i + 1)

\* Faulty variant: the 2-page spread listed in print order (back, front).
get_spread_pairs_printorder(page_count) ==
    IF page_count = 1 THEN << <<0, -1, "Single Page">> >>
    ELSE IF page_count = 2 THEN << <<1, 0, "Front & Back">> >>
    ELSE IF page_count = 4 THEN
        << <<3, 0, "Back Cover & Front Cover">>, <<1, 2, "Inside Spread">> >>
    ELSE IF page_count = 8 THEN
        << <<7, 0, "Back Cover & Front Cover">>, <<1, 2, "First Inside Spread">>,
           <<3, 4, "Center Spread">>, <<5, 6, "Last Inside Spread">> >>
    ELSE [k \in 1..SequentialPairCount(page_count) |->
            LET i == 2 * (k - 1)
            IN  IF i + 1 < page_count THEN <<i, i + 1, PagesLabel(i)>>
                ELSE <<i, -1, PageLabel(i)>>]

\* Faulty variant: the centre spread of eight pages repeats page 2.
get_spread_pairs_repeated(page_count) ==
    IF page_count = 1 THEN << <<0, -1, "Single Page">> >>
    ELSE IF page_count = 2 THEN << <<0, 1, "Front & Back">> >>
    ELSE IF page_count = 4 THEN
        << <<3, 0, "Back Cover & Front Cover">>, <<1, 2, "Inside Spread">> >>
    ELSE IF page_count = 8 THEN
        << <<7, 0, "Back Cover & Front Cover">>, <<1, 2, "First Inside Spread">>,
           <<2, 4, "Center Spread">>, <<5, 6, "Last Inside Spread">> >>
    ELSE [k \in 1..SequentialPairCount(page_count) |->
            LET i == 2 * (k - 1)
            IN  IF i + 1 < page_count THEN <<i, i + 1, PagesLabel(i)>>
                ELSE <<i, -1, PageLabel(i)>>]

\* get_spread_pairs: the (left, right, description) of each spread of the
\* folded product.
get_spread_pairs(page_count) ==
    IF page_count = 1 THEN << <<0, -1, "Single Page">> >>
    ELSE IF page_count = 2 THEN << <<0, 1, "Front & Back">> >>
    ELSE IF page_count = 4 THEN
        << <<3, 0, "Back Cover & Front Cover">>, <<1, 2, "Inside Spread">> >>
    ELSE IF page_count = 8 THEN
        << <<7, 0, "Back Cover & Front Cover">>, <<1, 2, "First Inside Spread">>,
           <<3, 4, "Center Spread">>, <<5, 6, "Last Inside Spread">> >>
    ELSE [k \in 1..SequentialPairCount(page_count) |->
            LET i == 2 * (k - 1)
            IN  IF i + 1 < page_count THEN <<i, i + 1, PagesLabel(i)>>
                ELSE <<i, -1, PageLabel(i)>>]

\* The outcome of a call: the returned list, or the exception raised.
NotCalled == [called |-> FALSE, raised |-> "", value |-> <<>>]
Returned(v) == [called |-> TRUE, raised |-> "", value |-> v]
Raised(e) == [called |-> TRUE, raised |-> e, value |-> <<>>]

\* Faulty variant: counts without a table are rejected.
ImpositionCall_rejecting(page_count) ==
    IF page_count \in FirstClassCounts
    THEN Returned(get_imposition_order(page_count))
    ELSE Raised("UnsupportedPageCount")

\* A call of get_imposition_order: every branch returns, none raises.
ImpositionCall(page_count) == Returned(get_imposition_order(page_count))

\* A call of get_spread_pairs: every branch returns, none raises.
SpreadCall(page_count) == Returned(get_spread_pairs(page_count))

(***************************************************************************)
(* Saddle-stitch folding, as the class documentation describes it: pairs   *)
(* 2s-1 and 2s of the print order are the front and the back of sheet s;   *)
(* the sheets are nested, sheet s+1 inside sheet s, and folded.  Seen from *)
(* the front cover, the right half of every sheet comes first (outermost   *)
(* sheet first), then the left halves (innermost sheet first).  The right  *)
(* half of a sheet shows the right page of its front and, on its reverse,  *)
(* the left page of its back; the left half shows the right page of its    *)
(* back and, on its reverse, the left page of its front.                   *)
(***************************************************************************)
FoldSheets(order) ==
    LET sheets == Len(order) \div 2
        front(s) == order[2 * s - 1]
        back(s) == order[2 * s]
    IN  [j \in 1..(4 * sheets) |->
            LET leaf == (j + 1) \div 2
                recto == (j % 2 = 1)
            IN  IF leaf <= sheets
                THEN IF recto THEN front(leaf)[2] ELSE back(leaf)[1]
                ELSE LET s == 2 * sheets + 1 - leaf
                     IN  IF recto THEN back(s)[2] ELSE front(s)[1]]

(***************************************************************************)
(* Document model: PageData, BrochureData                                  *)
(*                                                                         *)
(* An element keeps the fields the modelled operations read or compare:    *)
(* a ShapeElement its shape_type, fill_color, stroke_color, stroke_width,  *)
(* opacity (in hundredths) and layer_index; a TextElement its text,        *)
(* font_color, alignment and layer_index.  Positions, sizes and fonts are  *)
(* literals that no modelled operation reads.  Characters outside ASCII in *)
(* template texts are written "?".                                         *)
(***************************************************************************)
\* background_gradient = None
NoGradient == <<>>

\* PageData(): the dataclass defaults
PageData ==
    [background_color |-> "#ffffff",
     background_gradient |-> NoGradient,
     shape_elements |-> <<>>,
     image_elements |-> <<>>,
     text_elements |-> <<>>]

\* BrochureData.__post_init__: pages are appended while the list is shorter
\* than page_count; a longer list is left as it is.
PostInitPages(page_count, pages) ==
    IF Len(pages) < page_count
    THEN pages \o [k \in 1..(page_count - Len(pages)) |-> PageData]
    ELSE pages

\* BrochureData(page_count, pages)
BrochureData(page_count, pages) ==
    [page_count |-> page_count,
     pages |-> PostInitPages(page_count, pages),
     template_name |-> "blank"]

\* CorporateTemplate.apply, the branch taken for the page at index i (from 0) of n pages
CorporateTemplate_apply_page(i, n, page) ==
    IF i = 0 THEN
        [page EXCEPT
            !.background_gradient = <<"#1a365d", "#2d4a77", "vertical">>,
            !.shape_elements = <<
              [shape_type |-> "rectangle", fill_color |-> "#ed8936", stroke_color |-> "#ed8936", stroke_width |-> 0, opacity |-> 100, layer_index |-> 0],
              [shape_type |-> "rectangle", fill_color |-> "#ed8936", stroke_color |-> "#ed8936", stroke_width |-> 0, opacity |-> 80, layer_index |-> 0],
              [shape_type |-> "circle", fill_color |-> "#ffffff", stroke_color |-> "#ffffff", stroke_width |-> 0, opacity |-> 10, layer_index |-> 0],
              [shape_type |-> "circle", fill_color |-> "#ffffff", stroke_color |-> "#ffffff", stroke_width |-> 0, opacity |-> 5, layer_index |-> 0] >>,
            !.text_elements = <<
              [text |-> "COMPANY NAME", font_color |-> "#ffffff", alignment |-> "center", layer_index |-> 0],
              [text |-> "Professional Services", font_color |-> "#ed8936", alignment |-> "center", layer_index |-> 0],
              [text |-> "Your tagline goes here", font_color |-> "#ffffff", alignment |-> "center", layer_index |-> 0],
              [text |-> "www.example.com", font_color |-> "#ffffff", alignment |-> "center", layer_index |-> 0] >>]
    ELSE IF i = n - 1 THEN
        [page EXCEPT
            !.background_gradient = <<"#1a365d", "#2d4a77", "vertical">>,
            !.shape_elements = <<
              [shape_type |-> "rectangle", fill_color |-> "#ed8936", stroke_color |-> "#ed8936", stroke_width |-> 0, opacity |-> 100, layer_index |-> 0] >>,
            !.text_elements = <<
              [text |-> "Contact Us", font_color |-> "#ffffff", alignment |-> "center", layer_index |-> 0],
              [text |-> "Location: 123 Business Street", font_color |-> "#ffffff", alignment |-> "center", layer_index |-> 0],
              [text |-> "Phone: +30 210 1234567", font_color |-> "#ffffff", alignment |-> "center", layer_index |-> 0],
              [text |-> "Email: info@example.com", font_color |-> "#ffffff", alignment |-> "center", layer_index |-> 0],
              [text |-> "? 2024 Company Name", font_color |-> "#ffffff", alignment |-> "center", layer_index |-> 0] >>]
    ELSE
        [page EXCEPT
            !.background_color = "#f7fafc",
            !.shape_elements = <<
              [shape_type |-> "rectangle", fill_color |-> "#1a365d", stroke_color |-> "#1a365d", stroke_width |-> 0, opacity |-> 100, layer_index |-> 0],
              [shape_type |-> "rectangle", fill_color |-> "#ed8936", stroke_color |-> "#ed8936", stroke_width |-> 0, opacity |-> 100, layer_index |-> 0],
              [shape_type |-> "rectangle", fill_color |-> "#ed8936", stroke_color |-> "#ed8936", stroke_width |-> 0, opacity |-> 50, layer_index |-> 0] >>,
            !.text_elements = <<
              [text |-> "Section " \o ToString(i), font_color |-> "#1a365d", alignment |-> "center", layer_index |-> 0],
              [text |-> "Add your content here. This template provides\na clean, professional look for your business.", font_color |-> "#4a5568", alignment |-> "center", layer_index |-> 0],
              [text |-> "Key Features:", font_color |-> "#1a365d", alignment |-> "left", layer_index |-> 0],
              [text |-> "? Professional design\n? Easy to customize\n? Print-ready format", font_color |-> "#4a5568", alignment |-> "left", layer_index |-> 0] >>]

\* CreativeTemplate.apply, the branch taken for the page at index i (from 0) of n pages
CreativeTemplate_apply_page(i, n, page) ==
    IF i = 0 THEN
        [page EXCEPT
            !.background_gradient = <<"#9b2c2c", "#c53030", "diagonal">>,
            !.shape_elements = <<
              [shape_type |-> "triangle", fill_color |-> "#f6e05e", stroke_color |-> "#f6e05e", stroke_width |-> 0, opacity |-> 30, layer_index |-> 0],
              [shape_type |-> "triangle", fill_color |-> "#ffffff", stroke_color |-> "#ffffff", stroke_width |-> 0, opacity |-> 10, layer_index |-> 0],
              [shape_type |-> "circle", fill_color |-> "#f6e05e", stroke_color |-> "#f6e05e", stroke_width |-> 0, opacity |-> 80, layer_index |-> 0],
              [shape_type |-> "circle", fill_color |-> "#ffffff", stroke_color |-> "#ffffff", stroke_width |-> 0, opacity |-> 20, layer_index |-> 0],
              [shape_type |-> "rectangle", fill_color |-> "#f6e05e", stroke_color |-> "#f6e05e", stroke_width |-> 0, opacity |-> 100, layer_index |-> 0] >>,
            !.text_elements = <<
              [text |-> "CREATIVE", font_color |-> "#ffffff", alignment |-> "center", layer_index |-> 0],
              [text |-> "STUDIO", font_color |-> "#f6e05e", alignment |-> "center", layer_index |-> 0],
              [text |-> "Design ? Innovation ? Excellence", font_color |-> "#ffffff", alignment |-> "center", layer_index |-> 0] >>]
    ELSE IF i = n - 1 THEN
        [page EXCEPT
            !.background_gradient = <<"#2d3748", "#1a202c", "vertical">>,
            !.shape_elements = <<
              [shape_type |-> "circle", fill_color |-> "#9b2c2c", stroke_color |-> "#9b2c2c", stroke_width |-> 0, opacity |-> 30, layer_index |-> 0],
              [shape_type |-> "rectangle", fill_color |-> "#f6e05e", stroke_color |-> "#f6e05e", stroke_width |-> 0, opacity |-> 100, layer_index |-> 0] >>,
            !.text_elements = <<
              [text |-> "Let's Create Together", font_color |-> "#ffffff", alignment |-> "center", layer_index |-> 0],
              [text |-> "Contact us for your next project", font_color |-> "#a0aec0", alignment |-> "center", layer_index |-> 0],
              [text |-> "hello@creativestudio.com", font_color |-> "#f6e05e", alignment |-> "center", layer_index |-> 0],
              [text |-> "+30 210 9876543", font_color |-> "#ffffff", alignment |-> "center", layer_index |-> 0] >>]
    ELSE
        [page EXCEPT
            !.background_color = "#ffffff",
            !.shape_elements = <<
              [shape_type |-> "rectangle", fill_color |-> "#9b2c2c", stroke_color |-> "#9b2c2c", stroke_width |-> 0, opacity |-> 100, layer_index |-> 0],
              [shape_type |-> "rectangle", fill_color |-> "#f6e05e", stroke_color |-> "#f6e05e", stroke_width |-> 0, opacity |-> 100, layer_index |-> 0],
              [shape_type |-> "triangle", fill_color |-> "#9b2c2c", stroke_color |-> "#9b2c2c", stroke_width |-> 0, opacity |-> 70, layer_index |-> 0] >>,
            !.text_elements = <<
              [text |-> "Our Work #" \o ToString(i), font_color |-> "#9b2c2c", alignment |-> "center", layer_index |-> 0],
              [text |-> "We bring your ideas to life with\ninnovative design solutions.", font_color |-> "#2d3748", alignment |-> "center", layer_index |-> 0],
              [text |-> "Services:", font_color |-> "#9b2c2c", alignment |-> "left", layer_index |-> 0],
              [text |-> "- Brand Identity\n- Web Design\n- Print Materials\n- Marketing", font_color |-> "#2d3748", alignment |-> "left", layer_index |-> 0] >>]

\* ElegantTemplate.apply, the branch taken for the page at index i (from 0) of n pages
ElegantTemplate_apply_page(i, n, page) ==
    IF i = 0 THEN
        [page EXCEPT
            !.background_gradient = <<"#1a1a2e", "#16213e", "vertical">>,
            !.shape_elements = <<
              [shape_type |-> "rectangle", fill_color |-> "transparent", stroke_color |-> "#d4a574", stroke_width |-> 2, opacity |-> 60, layer_index |-> 0],
              [shape_type |-> "rectangle", fill_color |-> "#d4a574", stroke_color |-> "#d4a574", stroke_width |-> 0, opacity |-> 100, layer_index |-> 0],
              [shape_type |-> "rectangle", fill_color |-> "#d4a574", stroke_color |-> "#d4a574", stroke_width |-> 0, opacity |-> 100, layer_index |-> 0],
              [shape_type |-> "rectangle", fill_color |-> "#d4a574", stroke_color |-> "#d4a574", stroke_width |-> 0, opacity |-> 100, layer_index |-> 0],
              [shape_type |-> "rectangle", fill_color |-> "#d4a574", stroke_color |-> "#d4a574", stroke_width |-> 0, opacity |-> 100, layer_index |-> 0],
              [shape_type |-> "rectangle", fill_color |-> "#d4a574", stroke_color |-> "#d4a574", stroke_width |-> 0, opacity |-> 100, layer_index |-> 0],
              [shape_type |-> "rectangle", fill_color |-> "#d4a574", stroke_color |-> "#d4a574", stroke_width |-> 0, opacity |-> 100, layer_index |-> 0],
              [shape_type |-> "rectangle", fill_color |-> "#d4a574", stroke_color |-> "#d4a574", stroke_width |-> 0, opacity |-> 100, layer_index |-> 0],
              [shape_type |-> "rectangle", fill_color |-> "#d4a574", stroke_color |-> "#d4a574", stroke_width |-> 0, opacity |-> 100, layer_index |-> 0],
              [shape_type |-> "rectangle", fill_color |-> "#d4a574", stroke_color |-> "#d4a574", stroke_width |-> 0, opacity |-> 100, layer_index |-> 0] >>,
            !.text_elements = <<
              [text |-> "*", font_color |-> "#d4a574", alignment |-> "center", layer_index |-> 0],
              [text |-> "MAISON", font_color |-> "#ffffff", alignment |-> "center", layer_index |-> 0],
              [text |-> "?L?GANCE", font_color |-> "#d4a574", alignment |-> "center", layer_index |-> 0],
              [text |-> "Luxury Redefined", font_color |-> "#a0a0a0", alignment |-> "center", layer_index |-> 0],
              [text |-> "Est. 2024", font_color |-> "#d4a574", alignment |-> "center", layer_index |-> 0] >>]
    ELSE IF i = n - 1 THEN
        [page EXCEPT
            !.background_gradient = <<"#1a1a2e", "#16213e", "vertical">>,
            !.shape_elements = <<
              [shape_type |-> "rectangle", fill_color |-> "transparent", stroke_color |-> "#d4a574", stroke_width |-> 1, opacity |-> 40, layer_index |-> 0] >>,
            !.text_elements = <<
              [text |-> "Visit Us", font_color |-> "#d4a574", alignment |-> "center", layer_index |-> 0],
              [text |-> "123 Luxury Avenue\nAthens, Greece", font_color |-> "#ffffff", alignment |-> "center", layer_index |-> 0],
              [text |-> "By Appointment Only", font_color |-> "#a0a0a0", alignment |-> "center", layer_index |-> 0],
              [text |-> "+30 210 555 0000", font_color |-> "#d4a574", alignment |-> "center", layer_index |-> 0],
              [text |-> "www.maisonelegance.com", font_color |-> "#ffffff", alignment |-> "center", layer_index |-> 0] >>]
    ELSE
        [page EXCEPT
            !.background_color = "#faf5f0",
            !.shape_elements = <<
              [shape_type |-> "rectangle", fill_color |-> "#d4a574", stroke_color |-> "#d4a574", stroke_width |-> 0, opacity |-> 100, layer_index |-> 0],
              [shape_type |-> "rectangle", fill_color |-> "#d4a574", stroke_color |-> "#d4a574", stroke_width |-> 0, opacity |-> 100, layer_index |-> 0],
              [shape_type |-> "rectangle", fill_color |-> "#d4a574", stroke_color |-> "#d4a574", stroke_width |-> 0, opacity |-> 50, layer_index |-> 0],
              [shape_type |-> "rectangle", fill_color |-> "#d4a574", stroke_color |-> "#d4a574", stroke_width |-> 0, opacity |-> 50, layer_index |-> 0] >>,
            !.text_elements = <<
              [text |-> "Collection " \o ToString(i), font_color |-> "#1a1a2e", alignment |-> "center", layer_index |-> 0],
              [text |-> "Experience the extraordinary", font_color |-> "#d4a574", alignment |-> "center", layer_index |-> 0],
              [text |-> "Discover our curated selection of\nexquisite pieces, crafted with precision\nand an unwavering commitment to excellence.", font_color |-> "#4a4a4a", alignment |-> "center", layer_index |-> 0],
              [text |-> "*  *  *", font_color |-> "#d4a574", alignment |-> "center", layer_index |-> 0],
              [text |-> "Quality ? Craftsmanship ? Heritage", font_color |-> "#1a1a2e", alignment |-> "center", layer_index |-> 0] >>]

\* ModernMinimalTemplate.apply, the branch taken for the page at index i (from 0) of n pages
ModernMinimalTemplate_apply_page(i, n, page) ==
    IF i = 0 THEN
        [page EXCEPT
            !.background_color = "#ffffff",
            !.shape_elements = <<
              [shape_type |-> "rectangle", fill_color |-> "#000000", stroke_color |-> "#000000", stroke_width |-> 0, opacity |-> 100, layer_index |-> 0],
              [shape_type |-> "circle", fill_color |-> "#00d9ff", stroke_color |-> "#00d9ff", stroke_width |-> 0, opacity |-> 15, layer_index |-> 0],
              [shape_type |-> "rectangle", fill_color |-> "#000000", stroke_color |-> "#000000", stroke_width |-> 0, opacity |-> 100, layer_index |-> 0] >>,
            !.text_elements = <<
              [text |-> "NEXT", font_color |-> "#000000", alignment |-> "center", layer_index |-> 0],
              [text |-> "GEN", font_color |-> "#00d9ff", alignment |-> "center", layer_index |-> 0],
              [text |-> "Technology for Tomorrow", font_color |-> "#ffffff", alignment |-> "center", layer_index |-> 0] >>]
    ELSE IF i = n - 1 THEN
        [page EXCEPT
            !.background_color = "#000000",
            !.shape_elements = <<
              [shape_type |-> "circle", fill_color |-> "#00d9ff", stroke_color |-> "#00d9ff", stroke_width |-> 0, opacity |-> 30, layer_index |-> 0] >>,
            !.text_elements = <<
              [text |-> "Get Started", font_color |-> "#ffffff", alignment |-> "center", layer_index |-> 0],
              [text |-> "hello@nextgen.tech", font_color |-> "#00d9ff", alignment |-> "center", layer_index |-> 0],
              [text |-> "nextgen.tech", font_color |-> "#ffffff", alignment |-> "center", layer_index |-> 0],
              [text |-> "@nextgentech", font_color |-> "#666666", alignment |-> "center", layer_index |-> 0] >>]
    ELSE
        [page EXCEPT
            !.background_color = "#f5f5f5",
            !.shape_elements = <<
              [shape_type |-> "rectangle", fill_color |-> "#00d9ff", stroke_color |-> "#00d9ff", stroke_width |-> 0, opacity |-> 100, layer_index |-> 0],
              [shape_type |-> "rectangle", fill_color |-> "#000000", stroke_color |-> "#000000", stroke_width |-> 0, opacity |-> 100, layer_index |-> 0] >>,
            !.text_elements = <<
              [text |-> "0" \o ToString(i) \o ".", font_color |-> "#000000", alignment |-> "left", layer_index |-> 0],
              [text |-> "Feature", font_color |-> "#000000", alignment |-> "left", layer_index |-> 0],
              [text |-> "Innovative solutions designed\nfor the modern world.", font_color |-> "#333333", alignment |-> "center", layer_index |-> 0],
              [text |-> "? Fast\n? Secure\n? Scalable", font_color |-> "#000000", alignment |-> "left", layer_index |-> 0],
              [text |-> "Page " \o ToString(i), font_color |-> "#ffffff", alignment |-> "center", layer_index |-> 0] >>]

\* NatureOrganicTemplate.apply, the branch taken for the page at index i (from 0) of n pages
NatureOrganicTemplate_apply_page(i, n, page) ==
    IF i = 0 THEN
        [page EXCEPT
            !.background_gradient = <<"#2d5016", "#3d6b1e", "vertical">>,
            !.shape_elements = <<
              [shape_type |-> "circle", fill_color |-> "#9caf88", stroke_color |-> "#9caf88", stroke_width |-> 0, opacity |-> 30, layer_index |-> 0],
              [shape_type |-> "circle", fill_color |-> "#f5f2eb", stroke_color |-> "#f5f2eb", stroke_width |-> 0, opacity |-> 15, layer_index |-> 0],
              [shape_type |-> "circle", fill_color |-> "#ffffff", stroke_color |-> "#ffffff", stroke_width |-> 0, opacity |-> 10, layer_index |-> 0],
              [shape_type |-> "circle", fill_color |-> "#f5f2eb", stroke_color |-> "#f5f2eb", stroke_width |-> 0, opacity |-> 80, layer_index |-> 0] >>,
            !.text_elements = <<
              [text |-> "*", font_color |-> "#f5f2eb", alignment |-> "center", layer_index |-> 0],
              [text |-> "TERRA", font_color |-> "#f5f2eb", alignment |-> "center", layer_index |-> 0],
              [text |-> "BOTANICA", font_color |-> "#9caf88", alignment |-> "center", layer_index |-> 0],
              [text |-> "Natural - Organic - Sustainable", font_color |-> "#c8d6b9", alignment |-> "center", layer_index |-> 0] >>]
    ELSE IF i = n - 1 THEN
        [page EXCEPT
            !.background_gradient = <<"#8b7355", "#6b5344", "vertical">>,
            !.shape_elements = <<
              [shape_type |-> "circle", fill_color |-> "#f5f2eb", stroke_color |-> "#f5f2eb", stroke_width |-> 0, opacity |-> 10, layer_index |-> 0] >>,
            !.text_elements = <<
              [text |-> "Find Us", font_color |-> "#f5f2eb", alignment |-> "center", layer_index |-> 0],
              [text |-> "123 Garden Path\nNature Valley", font_color |-> "#ffffff", alignment |-> "center", layer_index |-> 0],
              [text |-> "Open Daily: 9am - 6pm", font_color |-> "#9caf88", alignment |-> "center", layer_index |-> 0],
              [text |-> "www.terrabotanica.eco", font_color |-> "#f5f2eb", alignment |-> "center", layer_index |-> 0] >>]
    ELSE
        [page EXCEPT
            !.background_color = "#f5f2eb",
            !.shape_elements = <<
              [shape_type |-> "circle", fill_color |-> "#9caf88", stroke_color |-> "#9caf88", stroke_width |-> 0, opacity |-> 40, layer_index |-> 0],
              [shape_type |-> "circle", fill_color |-> "#9caf88", stroke_color |-> "#9caf88", stroke_width |-> 0, opacity |-> 30, layer_index |-> 0],
              [shape_type |-> "rectangle", fill_color |-> "#8b7355", stroke_color |-> "#8b7355", stroke_width |-> 0, opacity |-> 50, layer_index |-> 0] >>,
            !.text_elements = <<
              [text |-> "+", font_color |-> "#2d5016", alignment |-> "center", layer_index |-> 0],
              [text |-> "Our Promise #" \o ToString(i), font_color |-> "#2d5016", alignment |-> "center", layer_index |-> 0],
              [text |-> "We believe in harmony with nature.\nEvery product is crafted with care\nfor you and the environment.", font_color |-> "#5a5a5a", alignment |-> "center", layer_index |-> 0],
              [text |-> "+ 100% Organic\n+ Sustainably Sourced\n+ Eco-Friendly Packaging", font_color |-> "#2d5016", alignment |-> "left", layer_index |-> 0] >>]

\* The keys of the TEMPLATES registry
TemplateKeys == {"blank", "corporate", "creative", "elegant", "modern", "nature"}

\* Template.name of each registered template class
TemplateName(template_key) ==
    CASE template_key = "corporate" -> "Corporate Professional"
      [] template_key = "creative" -> "Creative Bold"
      [] template_key = "elegant" -> "Elegant Luxury"
      [] template_key = "modern" -> "Modern Minimal"
      [] template_key = "nature" -> "Nature Organic"

\* One page of TEMPLATES[template_key].apply
TemplateApplyPage(template_key, i, n, page) ==
    CASE template_key = "corporate" -> CorporateTemplate_apply_page(i, n, page)
      [] template_key = "creative" -> CreativeTemplate_apply_page(i, n, page)
      [] template_key = "elegant" -> ElegantTemplate_apply_page(i, n, page)
      [] template_key = "modern" -> ModernMinimalTemplate_apply_page(i, n, page)
      [] template_key = "nature" -> NatureOrganicTemplate_apply_page(i, n, page)

\* TEMPLATES[template_key].apply(brochure): every page of brochure.pages is
\* rewritten in place according to its index, then template_name is set.
TemplateApply(template_key, b) ==
    [b EXCEPT
        !.pages = [k \in 1..Len(b.pages) |->
                      TemplateApplyPage(template_key, k - 1, Len(b.pages), b.pages[k])],
        !.template_name = TemplateName(template_key)]

(***************************************************************************)
(* BrochureGeneratorApp: state changes of the handlers                     *)
(***************************************************************************)
\* _initialize_pages: a fresh list of page_count blank pages
InitializePages(b) == [b EXCEPT !.pages = [k \in 1..b.page_count |-> PageData]]

\* Faulty variant: a page-count change rebuilds the whole list.
AdjustPages_rebuild(pages, new_count) == [k \in 1..new_count |-> PageData]

\* _on_page_count_change, the two loops: append blank pages while the list
\* is shorter than new_count, pop from the end while it is longer.
AdjustPages(pages, new_count) ==
    IF Len(pages) < new_count
    THEN pages \o [k \in 1..(new_count - Len(pages)) |-> PageData]
    ELSE IF Len(pages) > new_count
    THEN SubSeq(pages, 1, new_count)
    ELSE pages

\* The values of the page-count radio buttons
PageCountChoices == {1, 2, 4, 8}

\* The values of the preview-mode radio buttons
PreviewModes == {"single", "spread", "print"}

(***************************************************************************)
(* Preview canvas                                                          *)
(*                                                                         *)
(* display records what _update_preview left on the canvas: the mode, the  *)
(* list consulted and the index of the pair shown (from 0), and for each   *)
(* half the index of the page rendered there (-1: no page rendered, the    *)
(* half is blank), the x coordinate of its left edge and its width.        *)
(***************************************************************************)
A5_PREVIEW_WIDTH == 296
A5_PREVIEW_HEIGHT == 420
A4_WIDTH_MM == 210
A4_HEIGHT_MM == 297

\* padding = 40 of the three preview renderers
PreviewPadding == 40

\* gap = 10 of _render_spread_preview
SpreadGap == 10

NoHalf == [page |-> -1, x |-> 0, width |-> 0]

\* The canvas after preview_canvas.delete('all') and nothing drawn.
Cleared ==
    [mode |-> "none", source |-> "none", pair_index |-> -1,
     left |-> NoHalf, right |-> NoHalf, page_width |-> 0]

\* The largest box of aspect ratio num/den inside max_width x max_height:
\* <<width, height>>, the derived side truncated by int().
FitBox(max_width, max_height, num, den) ==
    IF max_width * den > max_height * num
    THEN <<(max_height * num) \div den, max_height>>
    ELSE <<max_width, (max_width * den) \div num>>

\* min(a, b)
Min(a, b) == IF a < b THEN a ELSE b

\* left_idx >= 0 and left_idx < len(self.brochure.pages)
PageDrawn(b, idx) == idx >= 0 /\ idx < Len(b.pages)

\* The page rendered into a half: pages[idx] when the index is in range,
\* none (-1) otherwise.
HalfPage(b, idx) == IF PageDrawn(b, idx) THEN idx ELSE -1

\* _render_single_page_preview
RenderSinglePagePreview(b, index, canvas) ==
    IF index >= Len(b.pages) THEN Cleared
    ELSE LET box == FitBox(canvas[1] - PreviewPadding * 2, canvas[2] - PreviewPadding * 2,
                           A5_PREVIEW_WIDTH, A5_PREVIEW_HEIGHT)
             x == (canvas[1] - box[1]) \div 2
         IN  [mode |-> "single", source |-> "none", pair_index |-> -1,
              left |-> [page |-> index, x |-> x, width |-> box[1]],
              right |-> NoHalf, page_width |-> box[1]]

\* Faulty variant: the right page drawn directly beside the left one.
SpreadRightX_nogap(x_start, page_width) == x_start + page_width

\* right_x = x_start + page_width + gap
SpreadRightX(x_start, page_width) == x_start + page_width + SpreadGap

\* Faulty variant: the spread is taken from the page index rounded up.
RenderSpreadPreview_roundup(b, index, canvas) ==
    LET spreads == get_spread_pairs(b.page_count)
        spread_idx == Min((index + 1) \div 2, Len(spreads) - 1)
    IN  IF spread_idx >= Len(spreads) THEN Cleared
        ELSE LET pair == spreads[spread_idx + 1]
                 box == FitBox(canvas[1] - PreviewPadding * 2, canvas[2] - PreviewPadding * 2,
                               A5_PREVIEW_WIDTH * 2 + SpreadGap, A5_PREVIEW_HEIGHT)
                 total_width == box[1]
                 page_width == (total_width - SpreadGap) \div 2
                 x_start == (canvas[1] - total_width) \div 2
             IN  [mode |-> "spread", source |-> "reading", pair_index |-> spread_idx,
                  left |-> [page |-> HalfPage(b, pair[1]), x |-> x_start, width |-> page_width],
                  right |-> [page |-> HalfPage(b, pair[2]),
                             x |-> SpreadRightX(x_start, page_width), width |-> page_width],
                  page_width |-> page_width]

\* _render_spread_preview
RenderSpreadPreview(b, index, canvas) ==
    LET spreads == get_spread_pairs(b.page_count)
        spread_idx == Min(index \div 2, Len(spreads) - 1)
    IN  IF spread_idx >= Len(spreads) THEN Cleared
        ELSE LET pair == spreads[spread_idx + 1]
                 box == FitBox(canvas[1] - PreviewPadding * 2, canvas[2] - PreviewPadding * 2,
                               A5_PREVIEW_WIDTH * 2 + SpreadGap, A5_PREVIEW_HEIGHT)
                 total_width == box[1]
                 page_width == (total_width - SpreadGap) \div 2
                 x_start == (canvas[1] - total_width) \div 2
             IN  [mode |-> "spread", source |-> "reading", pair_index |-> spread_idx,
                  left |-> [page |-> HalfPage(b, pair[1]), x |-> x_start, width |-> page_width],
                  right |-> [page |-> HalfPage(b, pair[2]),
                             x |-> SpreadRightX(x_start, page_width), width |-> page_width],
                  page_width |-> page_width]

\* _render_print_preview
RenderPrintPreview(b, index, canvas) ==
    LET imposition == get_imposition_order(b.page_count)
        box == FitBox(canvas[1] - PreviewPadding * 2, canvas[2] - PreviewPadding * 2,
                      A4_HEIGHT_MM, A4_WIDTH_MM)
        sheet_width == box[1]
        page_width == sheet_width \div 2
        x_start == (canvas[1] - sheet_width) \div 2
        sheet_idx == Min(index \div 2, (Len(imposition) - 1) \div 2) * 2
    IN  IF sheet_idx < Len(imposition)
        THEN LET pair == imposition[sheet_idx + 1]
             IN  [mode |-> "print", source |-> "print", pair_index |-> sheet_idx,
                  left |-> [page |-> HalfPage(b, pair[1]), x |-> x_start, width |-> page_width],
                  right |-> [page |-> HalfPage(b, pair[2]),
                             x |-> x_start + page_width, width |-> page_width],
                  page_width |-> page_width]
        ELSE [mode |-> "print", source |-> "print", pair_index |-> -1,
              left |-> NoHalf, right |-> NoHalf, page_width |-> page_width]

\* _update_preview: nothing is drawn on a canvas that has no size yet.
UpdatePreview(b, index, mode, canvas) ==
    IF canvas[1] <= 1 \/ canvas[2] <= 1 THEN Cleared
    ELSE IF mode = "single" THEN RenderSinglePagePreview(b, index, canvas)
    ELSE IF mode = "spread" THEN RenderSpreadPreview(b, index, canvas)
    ELSE RenderPrintPreview(b, index, canvas)

\* _update_page_label
UpdatePageLabel(mode, index, page_count) ==
    IF mode = "single"
    THEN "Page " \o ToString(index + 1) \o " of " \o ToString(page_count)
    ELSE IF mode = "spread"
    THEN LET spreads == get_spread_pairs(page_count)
             spread_idx == index \div 2
         IN  IF spread_idx < Len(spreads) THEN spreads[spread_idx + 1][3] ELSE "Spread View"
    ELSE "Print Layout (A4 sheets)"

(***************************************************************************)
(* Colour utilities of BrochureRenderer                                    *)
(*                                                                         *)
(* Colours are the strings the program holds.  Opacities (floats in the    *)
(* program) are counted in hundredths: 100 is 1.0.                         *)
(***************************************************************************)
\* The digits of int(s, 16) in the order of their values, and the upper-case
\* forms of the last six.
HexDigitChars ==
    <<"0", "1", "2", "3", "4", "5", "6", "7", "8", "9", "a", "b", "c", "d", "e", "f">>

UpperHexChars == <<"A", "B", "C", "D", "E", "F">>

\* The value of every digit character.
HexDigitValues ==
    [c \in {HexDigitChars[k] : k \in 1..16} \cup {UpperHexChars[k] : k \in 1..6} |->
        IF \E k \in 1..16 : HexDigitChars[k] = c
        THEN (CHOOSE k \in 1..16 : HexDigitChars[k] = c) - 1
        ELSE 9 + (CHOOSE k \in 1..6 : UpperHexChars[k] = c)]

IsHexDigit(c) == c \in DOMAIN HexDigitValues

HexDigitValue(c) == HexDigitValues[c]

\* int(x) of a float x = num / den (den > 0): truncation toward zero
IntTrunc(num, den) == IF num >= 0 THEN num \div den ELSE -((-num) \div den)

RECURSIVE LStripHash(_)
\* hex_color.lstrip('#'): every leading '#' is removed
LStripHash(s) ==
    IF Len(s) > 0 /\ SubSeq(s, 1, 1) = "#" THEN LStripHash(SubSeq(s, 2, Len(s))) ELSE s

\* ''.join([c*2 for c in hex_color]) of a three-character string
DoubleChars(s) ==
    SubSeq(s, 1, 1) \o SubSeq(s, 1, 1) \o SubSeq(s, 2, 2) \o SubSeq(s, 2, 2)
        \o SubSeq(s, 3, 3) \o SubSeq(s, 3, 3)

\* hex_color[i:i+2]: a slice is cut at the end of the string and is empty
\* from there on
Slice2(s, i) ==
    IF i >= Len(s) THEN "" ELSE SubSeq(s, i + 1, IF i + 2 <= Len(s) THEN i + 2 ELSE Len(s))

\* No digit of base 16.
NoDigit == -1

\* values[c], NoDigit where values has no c
ValueIn(values, c) == IF c \in DOMAIN values THEN values[c] ELSE NoDigit

\* the value of the digit c, NoDigit for any other character
DigitValue(c) == ValueIn(HexDigitValues, c)

\* int(s, 16) of n characters c1 c2 whose digit values are d1 and d2
IntOfChars(n, c1, c2, d1, d2) ==
    IF n = 1 /\ d1 # NoDigit THEN Returned(d1)
    ELSE IF n = 2 /\ d1 # NoDigit /\ d2 # NoDigit THEN Returned(16 * d1 + d2)
    ELSE IF n = 2 /\ c1 \in {" ", "+"} /\ d2 # NoDigit THEN Returned(d2)
    ELSE IF n = 2 /\ c1 = "-" /\ d2 # NoDigit THEN Returned(-d2)
    ELSE IF n = 2 /\ d1 # NoDigit /\ c2 = " " THEN Returned(d1)
    ELSE Raised("ValueError")

\* int(s, 16) of a slice s of at most two characters: white space around the
\* number is stripped, one sign is accepted in front of the digits, and
\* there is no room for a 0x prefix or an underscore between digits; any
\* other content raises ValueError.
IntBase16(s) ==
    IntOfChars(Len(s), SubSeq(s, 1, 1), SubSeq(s, 2, 2),
               DigitValue(SubSeq(s, 1, 1)), DigitValue(SubSeq(s, 2, 2)))

\* the string after "if len(hex_color) == 3: ..."
ExpandShort(hex_color) == IF Len(hex_color) = 3 THEN DoubleChars(hex_color) ELSE hex_color

\* tuple(...) of the three conversions: the tuple, or the ValueError of the
\* first slice that int() rejects
TupleOf(parts) ==
    IF parts[1].raised # "" THEN parts[1]
    ELSE IF parts[2].raised # "" THEN parts[2]
    ELSE IF parts[3].raised # "" THEN parts[3]
    ELSE Returned(<<parts[1].value, parts[2].value, parts[3].value>>)

\* tuple(int(hex_color[i:i+2], 16) for i in (0, 2, 4))
ParseSlices(hex_color) ==
    TupleOf([k \in 1..3 |-> IntBase16(Slice2(hex_color, 2 * (k - 1)))])

\* hex_to_rgb: the triple, or the ValueError of the first slice that
\* int() rejects
hex_to_rgb(hex_color) == ParseSlices(ExpandShort(LStripHash(hex_color)))

\* rgb extended by int(alpha * 255), for the outcome rgb of hex_to_rgb
WithAlpha(rgb, alpha) ==
    IF rgb.raised # "" THEN rgb
    ELSE Returned(rgb.value \o <<IntTrunc(alpha * 255, 100)>>)

\* hex_to_rgba(hex_color, alpha): rgb extended by int(alpha * 255)
hex_to_rgba(hex_color, alpha) == WithAlpha(hex_to_rgb(hex_color), alpha)

(***************************************************************************)
(* Geometry utilities of BrochureRenderer                                  *)
(***************************************************************************)
\* The sizes a BrochureRenderer is constructed with: <<width, height>> of
\* the preview renderer and of the export renderer.
A5_EXPORT_WIDTH == 1748
A5_EXPORT_HEIGHT == 2480

RendererSizes ==
    {<<A5_PREVIEW_WIDTH, A5_PREVIEW_HEIGHT>>, <<A5_EXPORT_WIDTH, A5_EXPORT_HEIGHT>>}

\* int(value / 100 * extent).  On the renderer's four extents the float
\* product of every whole percentage 0..100 truncates to the same integer
\* as the exact quotient.
PercentToPx(value, extent) == IntTrunc(value * extent, 100)

\* _render_shape_to_image: x, y, w, h
ShapeGeometry(shape, width, height) ==
    [x |-> PercentToPx(shape.x, width), y |-> PercentToPx(shape.y, height),
     w |-> PercentToPx(shape.width, width), h |-> PercentToPx(shape.height, height)]

\* _render_image_element: target_w, target_h and the centre position
ImageGeometry(image_elem, width, height) ==
    [x |-> PercentToPx(image_elem.x, width), y |-> PercentToPx(image_elem.y, height),
     w |-> PercentToPx(image_elem.width, width), h |-> PercentToPx(image_elem.height, height)]

\* _render_text_to_image: x, y
TextGeometry(text_elem, width, height) ==
    [x |-> PercentToPx(text_elem.x, width), y |-> PercentToPx(text_elem.y, height)]

(***************************************************************************)
(* Image fit modes of _render_image_element                                *)
(*                                                                         *)
(* Sizes are pairs <<width, height>> of pixels.                            *)
(***************************************************************************)
\* The arguments <<new_w, source_w, source_h>> at which the double
\* int(new_w / (source_w / source_h)) is one less than the exact quotient
\* new_w * source_h / source_w: the ratio is rounded before the division,
\* and where the exact quotient is a whole number the computed one can fall
\* just below it (9 / (9 / 7) = 6.999999999999999).  The table is complete
\* for sides up to 11 pixels and for sources of a renderer's size scaled to
\* a quarter, a half and the whole of a renderer's size.
CoverQuotientsLow ==
    {<<9, 9, 7>>, <<74, 296, 420>>, <<148, 296, 420>>, <<296, 296, 420>>}

\* new_h = int(new_w / img_ratio)
CoverHeight(new_w, source_w, source_h) ==
    IF <<new_w, source_w, source_h>> \in CoverQuotientsLow
    THEN (new_w * source_h) \div source_w - 1
    ELSE (new_w * source_h) \div source_w

\* new_w = int(new_h * img_ratio); on the same arguments the double product
\* truncates to the same integer as the exact quotient
CoverWidth(new_h, source_w, source_h) == (new_h * source_w) \div source_h

CeilDiv(num, den) == IF num % den = 0 THEN num \div den ELSE num \div den + 1

AbsDiff(a, b) == IF a >= b THEN a - b ELSE b - a

\* round_aspect of Image.thumbnail: of the floor lo and the ceiling hi of a
\* number the one whose key is smaller, at least 1.  A key is a fraction
\* <<numerator, denominator>>.  Where the two keys are equal as exact
\* fractions the doubles decide, and either neighbour can result.
RoundAspect(lo, hi, klo, khi) ==
    LET picks == IF klo[1] * khi[2] < khi[1] * klo[2] THEN {lo}
                 ELSE IF khi[1] * klo[2] < klo[1] * khi[2] THEN {hi}
                 ELSE {lo, hi}
    IN  {IF n > 1 THEN n ELSE 1 : n \in picks}

\* Image.thumbnail((x, y)): the sizes the image can have afterwards.  An
\* image that fits the box keeps its size.
ThumbnailSizes(source_w, source_h, x, y) ==
    IF x >= source_w /\ y >= source_h THEN {<<source_w, source_h>>}
    ELSE IF x * source_h >= y * source_w
    THEN LET key(n) == <<AbsDiff(y * source_w, n * source_h), 1>>
             lo == (y * source_w) \div source_h
             hi == CeilDiv(y * source_w, source_h)
         IN  {<<w, y>> : w \in RoundAspect(lo, hi, key(lo), key(hi))}
    ELSE LET key(n) == IF n = 0 THEN <<0, 1>>
                       ELSE <<AbsDiff(source_w * n, x * source_h), n>>
             lo == (x * source_h) \div source_w
             hi == CeilDiv(x * source_h, source_w)
         IN  {<<x, h>> : h \in RoundAspect(lo, hi, key(lo), key(hi))}

NoCrop == <<>>

FitModes == {"stretch", "contain", "cover"}

\* The resize of _render_image_element by fit_mode: the size the source is
\* scaled to, the crop box <<left, top, right, bottom>> in the scaled image
\* and the size of the result.
FitResize(source, target, fit_mode) ==
    LET target_w == target[1]
        target_h == target[2]
    IN  IF fit_mode = "stretch"
        THEN {[scaled |-> target, crop |-> NoCrop, size |-> target]}
        ELSE IF fit_mode = "contain"
        THEN {[scaled |-> s, crop |-> NoCrop, size |-> s] :
                    s \in ThumbnailSizes(source[1], source[2], target_w, target_h)}
        ELSE LET wider == source[1] * target_h > target_w * source[2]
                 new_w == IF wider THEN CoverWidth(target_h, source[1], source[2])
                          ELSE target_w
                 new_h == IF wider THEN target_h
                          ELSE CoverHeight(target_w, source[1], source[2])
                 left == (new_w - target_w) \div 2
                 top == (new_h - target_h) \div 2
             IN  {[scaled |-> <<new_w, new_h>>,
                   crop |-> <<left, top, left + target_w, top + target_h>>,
                   size |-> target]}

(***************************************************************************)
(* Horizontal text layout of _render_text_to_image                         *)
(*                                                                         *)
(* A line is known by the width of its bounding box; its ink is taken to   *)
(* start at the position it is drawn at.  The element is not rotated.      *)
(***************************************************************************)
padding == 20

RECURSIVE MaxOf(_)
\* max(line_widths) if line_widths else 0
MaxOf(widths) ==
    IF widths = <<>> THEN 0
    ELSE LET rest == MaxOf(Tail(widths))
         IN  IF Head(widths) >= rest THEN Head(widths) ELSE rest

Alignments == {"left", "center", "right"}

\* text_x of a line of width text_width inside the temporary image
LineTextX(temp_width, text_width, alignment) ==
    IF alignment = "center" THEN (temp_width - text_width) \div 2
    ELSE IF alignment = "right" THEN temp_width - padding - text_width
    ELSE padding

\* Where the lines of an unrotated text element land on the page: the
\* temporary image is max_width + 2 * padding wide, every line is drawn
\* into it at text_x, and the image is pasted with its centre column on x.
\* Each line is given by the page columns where it starts and ends.
TextLayout(line_widths, alignment, x) ==
    LET max_width == MaxOf(line_widths)
        temp_width == max_width + padding * 2
        paste_x == x - temp_width \div 2
    IN  [temp_width |-> temp_width,
         paste_x |-> paste_x,
         lines |-> [i \in 1..Len(line_widths) |->
                        LET text_x == LineTextX(temp_width, line_widths[i], alignment)
                        IN  [start |-> paste_x + text_x,
                             end |-> paste_x + text_x + line_widths[i]]]]

(***************************************************************************)
(* Backgrounds: create_gradient and the flat fill                          *)
(*                                                                         *)
(* An image is observed at its four corner pixels: tl = (0, 0),            *)
(* tr = (width-1, 0), bl = (0, height-1), br = (width-1, height-1).        *)
(***************************************************************************)
\* int(c1 + (c2 - c1) * ratio) for ratio = pos / extent.  At the corner
\* pixels of the sizes rendered here the float expression truncates to the
\* same integer as the exact quotient.
GradientChannel(c1, c2, pos, extent) == IntTrunc(c1 * extent + (c2 - c1) * pos, extent)

\* The colour create_gradient gives the pixel (x, y); an image created by
\* Image.new('RGB', size) is black where no branch draws.
GradientPixel(rgb1, rgb2, direction, x, y, width, height) ==
    IF direction = "vertical"
    THEN [k \in 1..3 |-> GradientChannel(rgb1[k], rgb2[k], y, height)]
    ELSE IF direction = "horizontal"
    THEN [k \in 1..3 |-> GradientChannel(rgb1[k], rgb2[k], x, width)]
    ELSE IF direction = "diagonal"
    THEN [k \in 1..3 |-> GradientChannel(rgb1[k], rgb2[k], x + y, width + height)]
    ELSE <<0, 0, 0>>

\* The corner pixels: <<x, y>> of each on an image of the given size.
Corners(width, height) ==
    [tl |-> <<0, 0>>, tr |-> <<width - 1, 0>>,
     bl |-> <<0, height - 1>>, br |-> <<width - 1, height - 1>>]

\* The image drawn from the parsed colours c1 and c2, or the ValueError of
\* the first that failed to parse.
GradientImage(c1, c2, direction, width, height, corners) ==
    IF c1.raised # "" THEN c1
    ELSE IF c2.raised # "" THEN c2
    ELSE Returned([c \in DOMAIN corners |->
                    GradientPixel(c1.value, c2.value, direction,
                                  corners[c][1], corners[c][2], width, height)])

\* create_gradient(color1, color2, direction) on a renderer of the given
\* size: both colours are parsed before the direction is looked at.
create_gradient(color1, color2, direction, width, height) ==
    GradientImage(hex_to_rgb(color1), hex_to_rgb(color2), direction, width, height,
                  Corners(width, height))

\* Image.new('RGB', (self.width, self.height), colour)
FlatImage(rgb) == [tl |-> rgb, tr |-> rgb, bl |-> rgb, br |-> rgb]

\* Image.new('RGB', size, rgb) for the outcome rgb of hex_to_rgb
FlatOf(rgb) == IF rgb.raised # "" THEN rgb ELSE Returned(FlatImage(rgb.value))

\* Faulty variant: a background colour other than the default white wins
\* over the gradient.
RenderBackground_colourfirst(page, width, height) ==
    IF page.background_gradient # NoGradient /\ page.background_color = "#ffffff"
    THEN create_gradient(page.background_gradient[1], page.background_gradient[2],
                         page.background_gradient[3], width, height)
    ELSE FlatOf(hex_to_rgb(page.background_color))

\* render_page, "Create base image with background"
RenderBackground(page, width, height) ==
    IF page.background_gradient # NoGradient
    THEN create_gradient(page.background_gradient[1], page.background_gradient[2],
                         page.background_gradient[3], width, height)
    ELSE FlatOf(hex_to_rgb(page.background_color))

\* img.convert('RGBA'): every pixel gets alpha 255
ConvertRGBA(img) == [c \in DOMAIN img |-> img[c] \o <<255>>]

\* No image: the render raised.
NoImage == <<>>

(***************************************************************************)
(* Page compositor: BrochureRenderer.render_page                           *)
(*                                                                         *)
(* The image is observed at one probe pixel.  An element of the rendered   *)
(* page carries its layer_index, a paint that identifies it (id), and      *)
(* covers: whether its rendering paints the probe pixel with full opacity. *)
(* The pixel holds the id of the element whose paint it shows, 0 for the   *)
(* page background.  An element also carries the fields that can make its  *)
(* rendering fail: the colours of a shape or a text, the source of an      *)
(* image.                                                                  *)
(***************************************************************************)
\* The loops that collect (type, element, layer_idx) from the three
\* collections: shapes, then images, then text.
CollectElements(page) ==
    [k \in 1..Len(page.shape_elements) |->
        [elem_type |-> "shape", elem |-> page.shape_elements[k],
         layer_idx |-> page.shape_elements[k].layer_index]]
    \o [k \in 1..Len(page.image_elements) |->
        [elem_type |-> "image", elem |-> page.image_elements[k],
         layer_idx |-> page.image_elements[k].layer_index]]
    \o [k \in 1..Len(page.text_elements) |->
        [elem_type |-> "text", elem |-> page.text_elements[k],
         layer_idx |-> page.text_elements[k].layer_index]]

RECURSIVE InsertByLayer(_, _)
\* e placed behind every entry whose layer_idx is not greater than its own
InsertByLayer(sorted, e) ==
    IF sorted = <<>> THEN <<e>>
    ELSE IF sorted[Len(sorted)].layer_idx <= e.layer_idx THEN Append(sorted, e)
    ELSE Append(InsertByLayer(SubSeq(sorted, 1, Len(sorted) - 1), e), sorted[Len(sorted)])

RECURSIVE SortFrom(_, _, _)
SortFrom(all_elements, k, sorted) ==
    IF k > Len(all_elements) THEN sorted
    ELSE SortFrom(all_elements, k + 1, InsertByLayer(sorted, all_elements[k]))

\* Faulty variant: the list is rendered as collected, without sorting.
SortByLayer_unsorted(all_elements) == all_elements

\* all_elements.sort(key=lambda x: x[2]): ascending, stable
SortByLayer(all_elements) == SortFrom(all_elements, 1, <<>>)

\* What a rendering step leaves: the exception raised ("" for none) and the
\* probe pixel.
Painted(pixel) == [raised |-> "", pixel |-> pixel]
Failed(e, pixel) == [raised |-> e, pixel |-> pixel]

\* The colours _render_shape_to_image parses, in the order it parses them:
\* the fill unless it is "transparent", then the stroke colour when
\* stroke_width > 0.
ShapeColours(shape) ==
    (IF shape.fill_color = "transparent" THEN <<>> ELSE <<shape.fill_color>>)
    \o (IF shape.stroke_width > 0 THEN <<shape.stroke_color>> ELSE <<>>)

\* The exception of the first outcome that raised, "" when none did.
FirstRaised(outcomes) ==
    IF \A k \in DOMAIN outcomes : outcomes[k].raised = "" THEN ""
    ELSE outcomes[CHOOSE k \in DOMAIN outcomes :
                    /\ outcomes[k].raised # ""
                    /\ \A j \in 1..(k - 1) : outcomes[j].raised = ""].raised

\* The exception _render_shape_to_image raises parsing its colours, "" when
\* both parse.
ShapeColourError(shape) ==
    FirstRaised([k \in DOMAIN ShapeColours(shape) |->
                    hex_to_rgba(ShapeColours(shape)[k], shape.opacity)])

\* the step of an element whose colours gave `error`
PasteUnless(error, pixel, elem) ==
    IF error # "" THEN Failed(error, pixel)
    ELSE Painted(IF elem.covers THEN elem.id ELSE pixel)

\* _render_shape_to_image: the colours are parsed, then the shape is pasted.
render_shape_to_image(pixel, shape) == PasteUnless(ShapeColourError(shape), pixel, shape)

\* The files on disk: os.path.exists(path), and whether Image.open and
\* convert('RGBA') decode the file.
FileExists(path) == path \in {"corrupt.png", "photo.png"}
FileDecodes(path) == path = "photo.png"

\* The first lines of _render_image_element: "loaded" with a decoded
\* source, "none" when the method returns img at once, "error" when
\* opening or decoding raises.
ImageSource(image_elem) ==
    IF image_elem.image_path # "" /\ FileExists(image_elem.image_path)
    THEN IF FileDecodes(image_elem.image_path) THEN "loaded" ELSE "error"
    ELSE IF image_elem.image_data # ""
    THEN IF image_elem.image_data = "png" THEN "loaded" ELSE "error"
    ELSE "none"

\* Faulty variant: no try/except around the body, and a missing source is
\* an error.
render_image_element_propagating(pixel, image_elem) ==
    IF ImageSource(image_elem) = "loaded"
    THEN Painted(IF image_elem.covers THEN image_elem.id ELSE pixel)
    ELSE IF ImageSource(image_elem) = "error" THEN Failed("UnidentifiedImageError", pixel)
    ELSE Failed("MissingSource", pixel)

\* _render_image_element: the paste is the last statement of the try
\* block, and "except Exception" returns img as it was.
render_image_element(pixel, image_elem) ==
    IF ImageSource(image_elem) = "loaded"
    THEN Painted(IF image_elem.covers THEN image_elem.id ELSE pixel)
    ELSE Painted(pixel)

\* fill_color = self.hex_to_rgb(text_elem.font_color)
TextColourError(text_elem) == hex_to_rgb(text_elem.font_color).raised

\* _render_text_to_image: the colour is parsed, then the text is pasted.
render_text_to_image(pixel, text_elem) ==
    PasteUnless(TextColourError(text_elem), pixel, text_elem)

\* One iteration of the loop "for elem_type, elem, _ in all_elements":
\* img.paste(temp_img, position, temp_img) at the probe pixel replaces what
\* is there when the source pixel is opaque.
Composite(pixel, entry) ==
    IF entry.elem_type = "shape" THEN render_shape_to_image(pixel, entry.elem)
    ELSE IF entry.elem_type = "image" THEN render_image_element(pixel, entry.elem)
    ELSE render_text_to_image(pixel, entry.elem)

RECURSIVE CompositeFrom(_, _, _)
\* The loop after the step of entry k: it ends with the exception of the
\* step, or goes on from entry k + 1.
CompositeNext(step, pixel, all_elements, k) ==
    IF step.raised # ""
    THEN [raised |-> step.raised, pixel |-> pixel, composited |-> k - 1]
    ELSE CompositeFrom(step.pixel, all_elements, k + 1)

\* The loop from entry k on: it ends at the first exception.  composited
\* counts the entries whose rendering returned.
CompositeFrom(pixel, all_elements, k) ==
    IF k > Len(all_elements) THEN [raised |-> "", pixel |-> pixel, composited |-> k - 1]
    ELSE CompositeNext(Composite(pixel, all_elements[k]), pixel, all_elements, k)

\* What render_page leaves, for the outcome of the background, the sorted
\* entries and the result of the loop over them.
RenderOutcome(background, all_elements, result) ==
    IF background.raised # ""
    THEN [raised |-> background.raised, order |-> all_elements, composited |-> 0,
          pixel |-> -1, background |-> NoImage]
    ELSE IF result.raised # ""
    THEN [raised |-> result.raised, order |-> all_elements,
          composited |-> result.composited, pixel |-> -1, background |-> NoImage]
    ELSE [raised |-> "", order |-> all_elements, composited |-> result.composited,
          pixel |-> result.pixel, background |-> ConvertRGBA(background.value)]

\* the loop of render_page over the sorted entries
CompositeAll(all_elements) == CompositeFrom(0, all_elements, 1)

\* render_page for the sorted entries of the page
RenderSorted(page, all_elements) ==
    RenderOutcome(RenderBackground(page, A5_PREVIEW_WIDTH, A5_PREVIEW_HEIGHT),
                  all_elements, CompositeAll(all_elements))

\* render_page on the preview renderer: the exception raised ("" when an
\* image is returned), the entries in the order taken, how many of them
\* were composited, the probe pixel and the corner pixels of the
\* background.
render_page(page) == RenderSorted(page, SortByLayer(CollectElements(page)))

\* The exception the rendering of an entry raises, "" when it returns (an
\* image element never raises).
ElementError(entry) ==
    IF entry.elem_type = "shape" THEN ShapeColourError(entry.elem)
    ELSE IF entry.elem_type = "text" THEN TextColourError(entry.elem)
    ELSE ""

\* the exception of the background, else the first among those of the
\* entries
FirstError(background, errors) ==
    IF background.raised # "" THEN background.raised
    ELSE IF \A k \in DOMAIN errors : errors[k] = "" THEN ""
    ELSE errors[CHOOSE k \in DOMAIN errors :
                    errors[k] # "" /\ \A j \in 1..(k - 1) : errors[j] = ""]

\* the exception of every entry, in the order given
ElementErrors(all_elements) == [k \in DOMAIN all_elements |-> ElementError(all_elements[k])]

\* The exception that escapes render_page(page) on the export renderer, ""
\* when it returns: the one of the background, else the one of the first
\* entry in layer order whose colours fail to parse.
RenderError(page) ==
    FirstError(RenderBackground(page, A5_EXPORT_WIDTH, A5_EXPORT_HEIGHT),
               ElementErrors(SortByLayer(CollectElements(page))))

(***************************************************************************)
(* SpecRender: a page built up element by element and rendered after each  *)
(* change                                                                  *)
(***************************************************************************)
\* layer_index values given to the elements
Layers == {-1, 0, 1}

ElementCount(page) ==
    Len(page.shape_elements) + Len(page.image_elements) + Len(page.text_elements)

InitRenderIdle ==
    /\ ren_page = PageData
    /\ ren_out = render_page(PageData)

\* ShapeElement(...) with the default colours, ImageElement(...) of a
\* readable file, TextElement(...) with the default colour
NewShape(id, layer, covers, fill_color, stroke_color, stroke_width) ==
    [id |-> id, layer_index |-> layer, covers |-> covers, fill_color |-> fill_color,
     stroke_color |-> stroke_color, stroke_width |-> stroke_width, opacity |-> 100]

NewImage(id, layer, covers, image_path, image_data) ==
    [id |-> id, layer_index |-> layer, covers |-> covers,
     image_path |-> image_path, image_data |-> image_data]

NewText(id, layer, covers, font_color) ==
    [id |-> id, layer_index |-> layer, covers |-> covers, font_color |-> font_color]

\* A ShapeElement of the given layer_index appended to page.shape_elements,
\* then render_page(page)
RenderAddShape(layer, covers) ==
    /\ ElementCount(ren_page) < MaxElements
    /\ ren_page' = [ren_page EXCEPT !.shape_elements =
            Append(@, NewShape(ElementCount(ren_page) + 1, layer, covers,
                               "#3498db", "#2980b9", 2))]
    /\ ren_out' = render_page(ren_page')

\* An ImageElement of the given layer_index appended to
\* page.image_elements, then render_page(page)
RenderAddImage(layer, covers) ==
    /\ ElementCount(ren_page) < MaxElements
    /\ ren_page' = [ren_page EXCEPT !.image_elements =
            Append(@, NewImage(ElementCount(ren_page) + 1, layer, covers, "photo.png", ""))]
    /\ ren_out' = render_page(ren_page')

\* A TextElement of the given layer_index appended to page.text_elements,
\* then render_page(page)
RenderAddText(layer, covers) ==
    /\ ElementCount(ren_page) < MaxElements
    /\ ren_page' = [ren_page EXCEPT !.text_elements =
            Append(@, NewText(ElementCount(ren_page) + 1, layer, covers, "#000000"))]
    /\ ren_out' = render_page(ren_page')

(***************************************************************************)
(* PDF export                                                              *)
(*                                                                         *)
(* The PDF canvas is the document sink: drawing operations accumulate on   *)
(* the current page, showPage() closes it, and save() closes a current     *)
(* page that holds drawing operations before writing the file.  Lengths    *)
(* are in tenths of a millimetre.                                          *)
(***************************************************************************)
\* A4[1], the width of the landscape page (297 mm)
A4_LANDSCAPE_WIDTH == 2970

\* A4[1]/2
HalfSheet == A4_LANDSCAPE_WIDTH \div 2

\* canvas.Canvas(filename, pagesize=(A4[1], A4[0]))
NewPdfCanvas == [pages |-> <<>>, code |-> <<>>, raised |-> ""]

\* c.drawImage(reader, x, 0, width=A4[1]/2, height=A4[0]) of rendered page idx
DrawImage(c, idx, x) ==
    [c EXCEPT !.code = Append(@, [op |-> "drawImage", page |-> idx, x |-> x, width |-> HalfSheet])]

\* c.line(A4[1]/2, ...): one crop mark on the centre line
DrawCropMark(c) ==
    [c EXCEPT !.code = Append(@, [op |-> "line", page |-> -1, x |-> HalfSheet, width |-> 0])]

\* c.showPage()
ShowPage(c) == [c EXCEPT !.pages = Append(c.pages, c.code), !.code = <<>>]

\* c.save()
Save(c) == IF Len(c.code) > 0 THEN ShowPage(c).pages ELSE c.pages

\* export_renderer.render_page(self.brochure.pages[idx]) for a half that is
\* drawn: the exception it raises, "" when it returns or is not called.
HalfRenderError(b, idx) == IF PageDrawn(b, idx) THEN RenderError(b.pages[idx + 1]) ELSE ""

\* "if left_idx >= 0 and ...: c.drawImage(...)" at x = 0
DrawLeft(c, b, pair) == IF PageDrawn(b, pair[1]) THEN DrawImage(c, pair[1], 0) ELSE c

\* "if right_idx >= 0 and ...: c.drawImage(...)" at x = A4[1]/2
DrawRight(c, b, pair) == IF PageDrawn(b, pair[2]) THEN DrawImage(c, pair[2], HalfSheet) ELSE c

\* the crop marks, and c.showPage() unless the sheet is the last
FinishSheet(c, last) ==
    IF last THEN DrawCropMark(DrawCropMark(c)) ELSE ShowPage(DrawCropMark(DrawCropMark(c)))

\* The sheet of a pair whose halves rendered with the exceptions errors[1]
\* and errors[2]: the left half is drawn before the right one is rendered.
DrawHalves(c, b, pair, errors, last) ==
    IF errors[1] # "" THEN [c EXCEPT !.raised = errors[1]]
    ELSE IF errors[2] # ""
    THEN [DrawLeft(c, b, pair) EXCEPT !.raised = errors[2]]
    ELSE FinishSheet(DrawRight(DrawLeft(c, b, pair), b, pair), last)

\* One iteration of the loop of _generate_pdf, for pair i (from 0).  An
\* exception of render_page leaves the loop and the method.
DrawSheet(c, b, imposition, i) ==
    DrawHalves(c, b, imposition[i + 1],
               [h \in 1..2 |-> HalfRenderError(b, imposition[i + 1][h])],
               i >= Len(imposition) - 1)

RECURSIVE DrawSheetsFrom(_, _, _, _)
\* The loop of _generate_pdf from pair i on.
DrawSheetsFrom(c, b, imposition, i) ==
    IF i >= Len(imposition) \/ c.raised # "" THEN c
    ELSE DrawSheetsFrom(DrawSheet(c, b, imposition, i), b, imposition, i + 1)

\* Faulty variant: the sheets follow the reading order.
ExportOrder_reading(page_count) ==
    LET spreads == get_spread_pairs(page_count)
    IN  [k \in 1..Len(spreads) |-> <<spreads[k][1], spreads[k][2]>>]

\* imposition = BookletImposition.get_imposition_order(self.brochure.page_count)
ExportOrder(page_count) == get_imposition_order(page_count)

\* what _generate_pdf leaves for the canvas c after the loop
SaveUnlessRaised(c) == IF c.raised # "" THEN Raised(c.raised) ELSE Returned(Save(c))

\* _generate_pdf: the pages of the file written by c.save(), or the
\* exception that left the loop, in which case c.save() is not reached and
\* no file is written.
GeneratePdf(b) ==
    SaveUnlessRaised(DrawSheetsFrom(NewPdfCanvas, b, ExportOrder(b.page_count), 0))

RECURSIVE SavedPagesFrom(_, _, _)
\* The loop of _export_images from page i (from 0) on: the numbers of the
\* files saved until render_page raises.
SavedPagesFrom(b, i, saved) ==
    IF i >= Len(b.pages) \/ RenderError(b.pages[i + 1]) # "" THEN saved
    ELSE SavedPagesFrom(b, i + 1, Append(saved, i + 1))

\* The message box an export ends with.
MessageBox(export, kind) == [export |-> export, kind |-> kind]

\* No file exported yet.
NoPdf == [written |-> FALSE, page_count |-> 0, sheets |-> <<>>]

(***************************************************************************)
(* BrochureGeneratorApp: the elements list, the selection and the          *)
(* properties panel                                                        *)
(*                                                                         *)
(* selected_element is None (<<>>) or the pair (elem_type, idx).  A row of *)
(* the listbox holds its label (display_text) together with the pair       *)
(* (elem_type, idx) of the elements_display entry the label was written    *)
(* for.  The properties panel is bound to an element object: props_element *)
(* names the page and the position of that object while it is part of the  *)
(* brochure ("attached"); it is "detached" once the list or the page that  *)
(* held the object has been replaced, "none" while the panel is empty.     *)
(***************************************************************************)
\* self.selected_element = None
NoSelection == <<>>

\* The properties panel with the "Select an element" label
NoProps == [state |-> "none", page |-> -1, elem_type |-> "none", idx |-> -1]

\* The panel bound to an object the brochure no longer holds
DetachedProps == [state |-> "detached", page |-> -1, elem_type |-> "none", idx |-> -1]

\* The panel bound to the element at position idx of a collection of a page
PropsOf(page_index, elem_type, idx) ==
    [state |-> "attached", page |-> page_index, elem_type |-> elem_type, idx |-> idx]

\* TextElement(text="New Text", ..., font_color="#000000")
NewTextElement ==
    [text |-> "New Text", font_color |-> "#000000", alignment |-> "center", layer_index |-> 0]

\* ShapeElement(shape_type=shape_type, ..., fill_color="#3498db",
\* stroke_color="#2980b9", stroke_width=2)
NewShapeElement(shape_type) ==
    [shape_type |-> shape_type, fill_color |-> "#3498db", stroke_color |-> "#2980b9",
     stroke_width |-> 2, opacity |-> 100, layer_index |-> 0]

\* ImageElement(image_path=filepath, ..., fit_mode="contain", layer_index=layer)
NewImageElement(filepath, layer) ==
    [image_path |-> filepath, fit_mode |-> "contain", opacity |-> 100, layer_index |-> layer]

\* The shape buttons
ShapeButtons == {"rectangle", "circle", "triangle"}

\* str.title() of a shape type
Title(shape_type) ==
    CASE shape_type = "rectangle" -> "Rectangle"
      [] shape_type = "circle" -> "Circle"
      [] shape_type = "triangle" -> "Triangle"

RECURSIVE LastSlash(_, _)
\* The position of the last "/" of path at or before k, 0 for none
LastSlash(path, k) ==
    IF k = 0 THEN 0
    ELSE IF SubSeq(path, k, k) = "/" THEN k
    ELSE LastSlash(path, k - 1)

\* os.path.basename(path)
Basename(path) == SubSeq(path, LastSlash(path, Len(path)) + 1, Len(path))

\* s[:15] + "..." if len(s) > 15 else s
Shorten(s) == IF Len(s) > 15 THEN SubSeq(s, 1, 15) \o "..." ELSE s

RECURSIVE ReplaceNewlines(_, _)
\* s.replace('\n', ' ') from position k on
ReplaceNewlines(s, k) ==
    IF k > Len(s) THEN ""
    ELSE (IF SubSeq(s, k, k) = "\n" THEN " " ELSE SubSeq(s, k, k)) \o ReplaceNewlines(s, k + 1)

\* f"[L{layer}] "
LayerTag(layer) == "[L" \o ToString(layer) \o "] "

\* _update_elements_list, the three loops: (elem_type, i, display_text,
\* layer) for the shapes, then the images, then the text elements
ElementsDisplay(page) ==
    [k \in 1..Len(page.shape_elements) |->
        [elem_type |-> "shape", idx |-> k - 1,
         display_text |-> LayerTag(page.shape_elements[k].layer_index)
                          \o Title(page.shape_elements[k].shape_type) \o " " \o ToString(k),
         layer_idx |-> page.shape_elements[k].layer_index]]
    \o [k \in 1..Len(page.image_elements) |->
        [elem_type |-> "image", idx |-> k - 1,
         display_text |-> LayerTag(page.image_elements[k].layer_index) \o "IMG: "
                          \o Shorten(Basename(page.image_elements[k].image_path)),
         layer_idx |-> page.image_elements[k].layer_index]]
    \o [k \in 1..Len(page.text_elements) |->
        [elem_type |-> "text", idx |-> k - 1,
         display_text |-> LayerTag(page.text_elements[k].layer_index) \o "TXT: "
                          \o ReplaceNewlines(Shorten(page.text_elements[k].text), 1),
         layer_idx |-> page.text_elements[k].layer_index]]

\* The rows inserted for the sorted entries
ListboxRows(entries) ==
    [k \in 1..Len(entries) |->
        [display_text |-> entries[k].display_text,
         elem_type |-> entries[k].elem_type, idx |-> entries[k].idx]]

\* _update_elements_list: the listbox is emptied, then filled with the
\* labels of the elements of pages[index] sorted by layer; an index outside
\* the list raises IndexError after the listbox was emptied.
UpdateElementsList(b, index) ==
    IF index < Len(b.pages)
    THEN ListboxRows(SortByLayer(ElementsDisplay(b.pages[index + 1])))
    ELSE <<>>

\* Faulty variant: the text elements are collected before the images.
SelectDisplay_textfirst(page) ==
    [k \in 1..Len(page.shape_elements) |->
        [elem_type |-> "shape", idx |-> k - 1, layer_idx |-> page.shape_elements[k].layer_index]]
    \o [k \in 1..Len(page.text_elements) |->
        [elem_type |-> "text", idx |-> k - 1, layer_idx |-> page.text_elements[k].layer_index]]
    \o [k \in 1..Len(page.image_elements) |->
        [elem_type |-> "image", idx |-> k - 1, layer_idx |-> page.image_elements[k].layer_index]]

\* _on_element_select, the three loops: (elem_type, i, layer)
SelectDisplay(page) ==
    [k \in 1..Len(page.shape_elements) |->
        [elem_type |-> "shape", idx |-> k - 1, layer_idx |-> page.shape_elements[k].layer_index]]
    \o [k \in 1..Len(page.image_elements) |->
        [elem_type |-> "image", idx |-> k - 1, layer_idx |-> page.image_elements[k].layer_index]]
    \o [k \in 1..Len(page.text_elements) |->
        [elem_type |-> "text", idx |-> k - 1, layer_idx |-> page.text_elements[k].layer_index]]

\* _on_element_select: the entry of the rebuilt and sorted list at the row
\* clicked, <<>> when the row is past its end
ResolveRow(page, row) ==
    LET entries == SortByLayer(SelectDisplay(page))
    IN  IF row < Len(entries) THEN <<entries[row + 1].elem_type, entries[row + 1].idx>>
        ELSE NoSelection

\* The collection of a page that holds the elements of a type
ElementsOf(page, elem_type) ==
    CASE elem_type = "shape" -> page.shape_elements
      [] elem_type = "image" -> page.image_elements
      [] elem_type = "text" -> page.text_elements

\* list.pop(idx)
PopAt(list, idx) == SubSeq(list, 1, idx) \o SubSeq(list, idx + 2, Len(list))

\* _delete_selected_element, the pops: the element at idx of the collection
\* of the selected type leaves the page when idx is inside the collection.
PageAfterDelete(page, selected) ==
    IF selected[1] = "shape" /\ selected[2] < Len(page.shape_elements)
    THEN [page EXCEPT !.shape_elements = PopAt(@, selected[2])]
    ELSE IF selected[1] = "image" /\ selected[2] < Len(page.image_elements)
    THEN [page EXCEPT !.image_elements = PopAt(@, selected[2])]
    ELSE IF selected[1] = "text" /\ selected[2] < Len(page.text_elements)
    THEN [page EXCEPT !.text_elements = PopAt(@, selected[2])]
    ELSE page

RECURSIVE MaxLayerFrom(_, _, _)
\* for elem in ...: max_layer = max(max_layer, layer)
MaxLayerFrom(elements, k, max_layer) ==
    IF k > Len(elements) THEN max_layer
    ELSE MaxLayerFrom(elements, k + 1,
                      IF elements[k].layer_index > max_layer
                      THEN elements[k].layer_index ELSE max_layer)

\* Faulty variant: the layer of the new image is the largest layer found.
ImportLayer_nolift(page) ==
    MaxLayerFrom(page.shape_elements \o page.text_elements \o page.image_elements, 1, 0)

\* _import_image: max_layer = 0, raised to the largest layer_index on the
\* page; the new image gets max_layer + 1.
ImportLayer(page) ==
    MaxLayerFrom(page.shape_elements \o page.text_elements \o page.image_elements, 1, 0) + 1

\* update_layer of the properties panel: elem.layer_index = layer_var.get()
\* on the object the panel is bound to.
BrochureAfterLayer(b, props, layer) ==
    IF props.state # "attached" THEN b
    ELSE IF props.elem_type = "shape"
    THEN [b EXCEPT !.pages[props.page + 1].shape_elements[props.idx + 1].layer_index = layer]
    ELSE IF props.elem_type = "image"
    THEN [b EXCEPT !.pages[props.page + 1].image_elements[props.idx + 1].layer_index = layer]
    ELSE [b EXCEPT !.pages[props.page + 1].text_elements[props.idx + 1].layer_index = layer]

\* The object of the panel after _on_page_count_change: the pages popped
\* from the end of the list take their elements with them.
PropsAfterPageCount(props, new_count) ==
    IF props.state = "attached" /\ props.page >= new_count THEN DetachedProps ELSE props

\* The object of the panel after _apply_template: _initialize_pages builds
\* new pages; a template assigns new shape and text lists to every page
\* and leaves the image lists.
PropsAfterTemplate(props, template_key) ==
    IF props.state = "attached" /\ (template_key = "blank" \/ props.elem_type # "image")
    THEN DetachedProps ELSE props

(***************************************************************************)
(* Spec: the editor                                                        *)
(***************************************************************************)
\* The template buttons pressed in the editor runs: the blank reset, a
\* template that sets gradients on the covers (corporate) and one that sets
\* flat colours only (modern).  SpecData applies every registered template.
TemplateChoices == {"blank", "corporate", "modern"}

\* Sizes of the preview canvas: <<1, 1>> before the window is laid out.
CanvasSizes == {<<1, 1>>, <<1000, 700>>, <<700, 900>>}

InitEngineIdle ==
    /\ eng_n = 1
    /\ eng_order = NotCalled
    /\ eng_order_prev = NotCalled
    /\ eng_spreads = NotCalled
    /\ eng_spreads_prev = NotCalled
    /\ eng_folded = <<>>

\* No export run yet.
InitExportIdle ==
    /\ image_files = <<>>
    /\ export_message = <<>>

\* No call made.
InitCallIdle ==
    /\ call_args = [fn |-> "none"]
    /\ call_out = NotCalled

InitEditorIdle ==
    /\ brochure = InitializePages(BrochureData(4, <<>>))
    /\ current_page_index = 0
    /\ preview_mode = "single"
    /\ canvas_size = <<1, 1>>
    /\ display = Cleared
    /\ page_label = "Page 1 of 4"
    /\ pdf = NoPdf
    /\ selected_element = NoSelection
    /\ elements_listbox = <<>>
    /\ props_element = NoProps

\* BrochureGeneratorApp.__init__
Init ==
    /\ InitEditorIdle
    /\ InitEngineIdle
    /\ InitRenderIdle
    /\ InitExportIdle
    /\ InitCallIdle

\* Faulty variant: the page shown stays where it was.
OnPageCountChange_keepindex(new_count) ==
    /\ brochure' = [brochure EXCEPT !.page_count = new_count,
                                    !.pages = AdjustPages(brochure.pages, new_count)]
    /\ display' = UpdatePreview(brochure', current_page_index, preview_mode, canvas_size)
    /\ page_label' = UpdatePageLabel(preview_mode, current_page_index, new_count)
    /\ elements_listbox' = UpdateElementsList(brochure', current_page_index)
    /\ props_element' = PropsAfterPageCount(props_element, new_count)
    /\ UNCHANGED <<current_page_index, preview_mode, canvas_size, pdf, selected_element>>

\* _on_page_count_change
OnPageCountChange(new_count) ==
    /\ brochure' = [brochure EXCEPT !.page_count = new_count,
                                    !.pages = AdjustPages(brochure.pages, new_count)]
    /\ current_page_index' = 0
    /\ display' = UpdatePreview(brochure', 0, preview_mode, canvas_size)
    /\ page_label' = UpdatePageLabel(preview_mode, 0, new_count)
    /\ elements_listbox' = UpdateElementsList(brochure', 0)
    /\ props_element' = PropsAfterPageCount(props_element, new_count)
    /\ UNCHANGED <<preview_mode, canvas_size, pdf, selected_element>>

\* _on_preview_mode_change
OnPreviewModeChange(mode) ==
    /\ preview_mode' = mode
    /\ display' = UpdatePreview(brochure, current_page_index, mode, canvas_size)
    /\ page_label' = UpdatePageLabel(mode, current_page_index, brochure.page_count)
    /\ UNCHANGED <<brochure, current_page_index, canvas_size, pdf>>
    /\ UNCHANGED <<selected_element, elements_listbox, props_element>>

\* _apply_template
ApplyTemplate(template_key) ==
    /\ brochure' = IF template_key = "blank" THEN InitializePages(brochure)
                   ELSE TemplateApply(template_key, brochure)
    /\ display' = UpdatePreview(brochure', current_page_index, preview_mode, canvas_size)
    /\ elements_listbox' = UpdateElementsList(brochure', current_page_index)
    /\ props_element' = PropsAfterTemplate(props_element, template_key)
    /\ UNCHANGED <<current_page_index, preview_mode, canvas_size, page_label, pdf>>
    /\ UNCHANGED selected_element

\* _prev_page
PrevPage ==
    /\ current_page_index > 0
    /\ current_page_index' = current_page_index - 1
    /\ display' = UpdatePreview(brochure, current_page_index', preview_mode, canvas_size)
    /\ page_label' = UpdatePageLabel(preview_mode, current_page_index', brochure.page_count)
    /\ elements_listbox' = UpdateElementsList(brochure, current_page_index')
    /\ UNCHANGED <<brochure, preview_mode, canvas_size, pdf, selected_element, props_element>>

\* _next_page
NextPage ==
    /\ current_page_index < brochure.page_count - 1
    /\ current_page_index' = current_page_index + 1
    /\ display' = UpdatePreview(brochure, current_page_index', preview_mode, canvas_size)
    /\ page_label' = UpdatePageLabel(preview_mode, current_page_index', brochure.page_count)
    /\ elements_listbox' = UpdateElementsList(brochure, current_page_index')
    /\ UNCHANGED <<brochure, preview_mode, canvas_size, pdf, selected_element, props_element>>

\* _on_canvas_resize: the <Configure> event of the preview canvas
OnCanvasResize(size) ==
    /\ canvas_size' = size
    /\ display' = UpdatePreview(brochure, current_page_index, preview_mode, size)
    /\ UNCHANGED <<brochure, current_page_index, preview_mode, page_label, pdf>>
    /\ UNCHANGED <<selected_element, elements_listbox, props_element>>

\* The end of _export_pdf for the outcome of _generate_pdf.
PdfExported(generated) ==
    IF generated.raised = ""
    THEN /\ pdf' = [written |-> TRUE, page_count |-> brochure.page_count,
                    sheets |-> generated.value]
         /\ export_message' = <<MessageBox("pdf", "showinfo")>>
    ELSE /\ pdf' = pdf
         /\ export_message' = <<MessageBox("pdf", "showerror")>>

\* _export_pdf with a file name chosen: _generate_pdf writes the file and
\* the success box is shown, or its exception is caught and the error box
\* is shown.
ExportPdf ==
    /\ PdfExported(GeneratePdf(brochure))
    /\ UNCHANGED <<brochure, current_page_index, preview_mode, canvas_size, display, page_label>>
    /\ UNCHANGED <<selected_element, elements_listbox, props_element>>
    /\ UNCHANGED image_files

\* _export_images with a directory chosen: the pages are rendered and saved
\* in order inside one try block; the first exception ends the loop and
\* the error box is shown.
ExportImages ==
    /\ image_files' = SavedPagesFrom(brochure, 0, <<>>)
    /\ export_message' = <<MessageBox("images", IF Len(image_files') = Len(brochure.pages)
                                                THEN "showinfo" ELSE "showerror")>>
    /\ UNCHANGED appVars

Next ==
    \/ \E new_count \in PageCountChoices : OnPageCountChange(new_count) /\ UNCHANGED <<engVars, renVars, expVars, callVars>>
    \/ \E mode \in PreviewModes : OnPreviewModeChange(mode) /\ UNCHANGED <<engVars, renVars, expVars, callVars>>
    \/ \E template_key \in TemplateChoices : ApplyTemplate(template_key) /\ UNCHANGED <<engVars, renVars, expVars, callVars>>
    \/ PrevPage /\ UNCHANGED <<engVars, renVars, expVars, callVars>>
    \/ NextPage /\ UNCHANGED <<engVars, renVars, expVars, callVars>>
    \/ \E size \in CanvasSizes \ {<<1, 1>>} : OnCanvasResize(size) /\ UNCHANGED <<engVars, renVars, expVars, callVars>>
    \/ ExportPdf /\ UNCHANGED <<engVars, renVars, callVars>>

Spec == Init /\ [][Next]_vars

(***************************************************************************)
(* SpecEdit: the editor's element handlers together with navigation,       *)
(* page-count changes, preview-mode changes and templates                  *)
(***************************************************************************)
\* most elements the brochure holds when one more is added
MaxEditElements == 2

\* largest layer_index given to an imported image
MaxImportLayer == 2

\* Values set in the layer spinbox (from_=-100, to=100)
EditLayers == {-2}

\* The shape buttons pressed in the editing runs
EditShapes == {"circle"}

\* The page-count radio buttons pressed in the editing runs
EditPageCounts == {1, 2}

\* The preview-mode radio buttons pressed in the editing runs
EditModes == {"single", "spread"}

\* The template buttons pressed in the editing runs
EditTemplates == {"blank", "modern"}

\* The pages (indices) on which elements are added in the editing runs
EditPages == {0, 1}

\* Files chosen in the import dialog
ImportPaths == {"/home/user/pictures/company_logo_2024.png"}

RECURSIVE TotalElements(_, _)
\* The number of elements on the pages from index k (from 1) on
TotalElements(b, k) ==
    IF k > Len(b.pages) THEN 0
    ELSE ElementCount(b.pages[k]) + TotalElements(b, k + 1)

\* Room for one more element: the brochure holds fewer than MaxEditElements
\* and the page displayed is one of EditPages.
CanAdd == TotalElements(brochure, 1) < MaxEditElements /\ current_page_index \in EditPages

\* _add_text_element
AddTextElement ==
    /\ current_page_index < Len(brochure.pages)
    /\ brochure' = [brochure EXCEPT !.pages[current_page_index + 1].text_elements =
                                        Append(@, NewTextElement)]
    /\ display' = UpdatePreview(brochure', current_page_index, preview_mode, canvas_size)
    /\ elements_listbox' = UpdateElementsList(brochure', current_page_index)
    /\ UNCHANGED <<current_page_index, preview_mode, canvas_size, page_label, pdf>>
    /\ UNCHANGED <<selected_element, props_element>>

\* _add_shape_element
AddShapeElement(shape_type) ==
    /\ current_page_index < Len(brochure.pages)
    /\ brochure' = [brochure EXCEPT !.pages[current_page_index + 1].shape_elements =
                                        Append(@, NewShapeElement(shape_type))]
    /\ display' = UpdatePreview(brochure', current_page_index, preview_mode, canvas_size)
    /\ elements_listbox' = UpdateElementsList(brochure', current_page_index)
    /\ UNCHANGED <<current_page_index, preview_mode, canvas_size, page_label, pdf>>
    /\ UNCHANGED <<selected_element, props_element>>

\* _import_image with a file chosen
ImportImage(filepath) ==
    /\ current_page_index < Len(brochure.pages)
    /\ brochure' = [brochure EXCEPT !.pages[current_page_index + 1].image_elements =
                        Append(@, NewImageElement(filepath,
                                      ImportLayer(brochure.pages[current_page_index + 1])))]
    /\ display' = UpdatePreview(brochure', current_page_index, preview_mode, canvas_size)
    /\ elements_listbox' = UpdateElementsList(brochure', current_page_index)
    /\ UNCHANGED <<current_page_index, preview_mode, canvas_size, page_label, pdf>>
    /\ UNCHANGED <<selected_element, props_element>>

\* The end of _on_element_select for the entry found: the selection and
\* the panel are set when the row is inside the rebuilt list.
Selected(found) ==
    IF found # NoSelection
    THEN /\ selected_element' = found
         /\ props_element' = PropsOf(current_page_index, found[1], found[2])
    ELSE UNCHANGED <<selected_element, props_element>>

\* _on_element_select: a click on a row of the listbox
OnElementSelect(row) ==
    /\ row < Len(elements_listbox)
    /\ current_page_index < Len(brochure.pages)
    /\ Selected(ResolveRow(brochure.pages[current_page_index + 1], row))
    /\ display' = UpdatePreview(brochure, current_page_index, preview_mode, canvas_size)
    /\ UNCHANGED <<brochure, current_page_index, preview_mode, canvas_size, page_label, pdf>>
    /\ UNCHANGED elements_listbox

\* update_layer: the trace of the layer spinbox of the properties panel
UpdateLayer(layer) ==
    /\ props_element.state # "none"
    /\ brochure' = BrochureAfterLayer(brochure, props_element, layer)
    /\ display' = UpdatePreview(brochure', current_page_index, preview_mode, canvas_size)
    /\ elements_listbox' = UpdateElementsList(brochure', current_page_index)
    /\ UNCHANGED <<current_page_index, preview_mode, canvas_size, page_label, pdf>>
    /\ UNCHANGED <<selected_element, props_element>>

\* _delete_selected_element: nothing happens without a selection.
DeleteSelectedElement ==
    /\ selected_element # NoSelection
    /\ current_page_index < Len(brochure.pages)
    /\ brochure' = [brochure EXCEPT !.pages[current_page_index + 1] =
                                        PageAfterDelete(@, selected_element)]
    /\ selected_element' = NoSelection
    /\ props_element' = NoProps
    /\ display' = UpdatePreview(brochure', current_page_index, preview_mode, canvas_size)
    /\ elements_listbox' = UpdateElementsList(brochure', current_page_index)
    /\ UNCHANGED <<current_page_index, preview_mode, canvas_size, page_label, pdf>>

NextEdit ==
    \/ \E new_count \in EditPageCounts : OnPageCountChange(new_count) /\ UNCHANGED <<engVars, renVars, expVars, callVars>>
    \/ \E mode \in EditModes : OnPreviewModeChange(mode) /\ UNCHANGED <<engVars, renVars, expVars, callVars>>
    \/ \E template_key \in EditTemplates : ApplyTemplate(template_key) /\ UNCHANGED <<engVars, renVars, expVars, callVars>>
    \/ PrevPage /\ UNCHANGED <<engVars, renVars, expVars, callVars>>
    \/ NextPage /\ UNCHANGED <<engVars, renVars, expVars, callVars>>
    \/ CanAdd /\ AddTextElement /\ UNCHANGED <<engVars, renVars, expVars, callVars>>
    \/ \E shape_type \in EditShapes :
            CanAdd /\ AddShapeElement(shape_type) /\ UNCHANGED <<engVars, renVars, expVars, callVars>>
    \/ \E filepath \in ImportPaths :
            /\ CanAdd
            /\ ImportLayer(brochure.pages[current_page_index + 1]) <= MaxImportLayer
            /\ ImportImage(filepath) /\ UNCHANGED <<engVars, renVars, expVars, callVars>>
    \/ \E row \in 0..(Len(elements_listbox) - 1) :
            Len(elements_listbox) <= MaxEditElements /\ OnElementSelect(row) /\ UNCHANGED <<engVars, renVars, expVars, callVars>>
    \/ \E layer \in EditLayers : UpdateLayer(layer) /\ UNCHANGED <<engVars, renVars, expVars, callVars>>
    \/ DeleteSelectedElement /\ UNCHANGED <<engVars, renVars, expVars, callVars>>

SpecEdit == Init /\ [][NextEdit]_vars

(***************************************************************************)
(* SpecBrowse: a document of one of the four first-class page counts       *)
(* browsed from its first page to its last with the Next button, in spread *)
(* or print-layout preview.  The user keeps pressing Next while it does    *)
(* something, which is the weak fairness of the step.                      *)
(***************************************************************************)
\* The editor after a page-count choice, a template button, one of the two
\* sheet previews chosen and the window laid out, showing the first page.
InitBrowse ==
    /\ \E n \in PageCountChoices, template_key \in TemplateChoices :
            brochure = IF template_key = "blank" THEN InitializePages(BrochureData(n, <<>>))
                       ELSE TemplateApply(template_key, InitializePages(BrochureData(n, <<>>)))
    /\ current_page_index = 0
    /\ preview_mode \in {"spread", "print"}
    /\ canvas_size \in CanvasSizes \ {<<1, 1>>}
    /\ display = UpdatePreview(brochure, 0, preview_mode, canvas_size)
    /\ page_label = UpdatePageLabel(preview_mode, 0, brochure.page_count)
    /\ pdf = NoPdf
    /\ selected_element = NoSelection
    /\ elements_listbox = UpdateElementsList(brochure, 0)
    /\ props_element = NoProps
    /\ InitEngineIdle
    /\ InitRenderIdle
    /\ InitExportIdle
    /\ InitCallIdle

NextBrowse == NextPage /\ UNCHANGED <<engVars, renVars, expVars, callVars>>

\* What the Next button does to the page index while a page follows.
PressNext ==
    /\ current_page_index < brochure.page_count - 1
    /\ current_page_index' = current_page_index + 1

SpecBrowse == InitBrowse /\ [][NextBrowse]_vars /\ WF_current_page_index(PressNext)

InitRender ==
    /\ InitRenderIdle
    /\ InitEditorIdle
    /\ InitEngineIdle
    /\ InitExportIdle
    /\ InitCallIdle

NextRender ==
    \/ \E layer \in Layers, covers \in BOOLEAN :
            RenderAddShape(layer, covers) /\ UNCHANGED <<engVars, appVars, expVars, callVars>>
    \/ \E layer \in Layers, covers \in BOOLEAN :
            RenderAddImage(layer, covers) /\ UNCHANGED <<engVars, appVars, expVars, callVars>>
    \/ \E layer \in Layers, covers \in BOOLEAN :
            RenderAddText(layer, covers) /\ UNCHANGED <<engVars, appVars, expVars, callVars>>

SpecRender == InitRender /\ [][NextRender]_vars

(***************************************************************************)
(* SpecData: a BrochureData built by its constructor from any page_count   *)
(* and any initial list of pages, then handed to the templates.            *)
(***************************************************************************)
\* A page that differs from the default one, to tell the pages passed in
\* from the pages the constructor appends.
GivenPage == [PageData EXCEPT !.background_color = "#000000"]

InitData ==
    /\ \E page_count \in 1..MaxConstructorPages :
       \E given \in 0..MaxConstructorPages :
            brochure = BrochureData(page_count, [k \in 1..given |-> GivenPage])
    /\ current_page_index = 0
    /\ preview_mode = "single"
    /\ canvas_size = <<1, 1>>
    /\ display = Cleared
    /\ page_label = "Page 1 of 4"
    /\ pdf = NoPdf
    /\ selected_element = NoSelection
    /\ elements_listbox = <<>>
    /\ props_element = NoProps
    /\ InitEngineIdle
    /\ InitRenderIdle
    /\ InitExportIdle
    /\ InitCallIdle

\* template.apply(brochure)
DataApplyTemplate(template_key) ==
    /\ brochure' = TemplateApply(template_key, brochure)
    /\ UNCHANGED <<current_page_index, preview_mode, canvas_size, display, page_label, pdf>>
    /\ UNCHANGED <<selected_element, elements_listbox, props_element>>
    /\ UNCHANGED <<engVars, renVars, expVars, callVars>>

NextData == \E template_key \in TemplateKeys \ {"blank"} : DataApplyTemplate(template_key)

SpecData == InitData /\ [][NextData]_vars

(***************************************************************************)
(* SpecImposition: the engine called on every page count 1..MaxPageCount   *)
(***************************************************************************)
InitImposition ==
    /\ eng_n \in 1..MaxPageCount
    /\ eng_order = NotCalled
    /\ eng_order_prev = NotCalled
    /\ eng_spreads = NotCalled
    /\ eng_spreads_prev = NotCalled
    /\ eng_folded = <<>>
    /\ InitEditorIdle
    /\ InitRenderIdle
    /\ InitExportIdle
    /\ InitCallIdle

CallImpositionOrder ==
    /\ eng_order' = ImpositionCall(eng_n)
    /\ eng_order_prev' = eng_order
    /\ UNCHANGED <<eng_n, eng_spreads, eng_spreads_prev, eng_folded>>

CallSpreadPairs ==
    /\ eng_spreads' = SpreadCall(eng_n)
    /\ eng_spreads_prev' = eng_spreads
    /\ UNCHANGED <<eng_n, eng_order, eng_order_prev, eng_folded>>

\* Print both sides of every sheet, nest and fold (whole sheets only).
FoldPrinted ==
    /\ eng_order.called
    /\ eng_order.raised = ""
    /\ Len(eng_order.value) % 2 = 0
    /\ eng_folded' = FoldSheets(eng_order.value)
    /\ UNCHANGED <<eng_n, eng_order, eng_order_prev, eng_spreads, eng_spreads_prev>>

NextImposition ==
    \/ CallImpositionOrder /\ UNCHANGED <<appVars, renVars, expVars, callVars>>
    \/ CallSpreadPairs /\ UNCHANGED <<appVars, renVars, expVars, callVars>>
    \/ FoldPrinted /\ UNCHANGED <<appVars, renVars, expVars, callVars>>

SpecImposition == InitImposition /\ [][NextImposition]_vars

(***************************************************************************)
(* SpecHex: hex_to_rgb called on every string of a small alphabet          *)
(***************************************************************************)
\* longest run of characters after the optional '#'
MaxHexLen == 8

\* two digits of different value, a letter that is no hex digit, a sign
HexAlphabet == {"1", "a", "g", "+"}

RECURSIVE JoinChars(_)
JoinChars(chars) == IF chars = <<>> THEN "" ELSE Head(chars) \o JoinChars(Tail(chars))

InitOthersIdle ==
    /\ InitEditorIdle
    /\ InitEngineIdle
    /\ InitRenderIdle
    /\ InitExportIdle

InitHex ==
    /\ \E n \in 0..MaxHexLen : \E chars \in [1..n -> HexAlphabet] : \E hash \in BOOLEAN :
            call_args = [fn |-> "hex_to_rgb",
                         hex_color |-> (IF hash THEN "#" ELSE "") \o JoinChars(chars)]
    /\ call_out = NotCalled
    /\ InitOthersIdle

CallHexToRgb ==
    /\ call_args.fn = "hex_to_rgb"
    /\ call_out' = hex_to_rgb(call_args.hex_color)
    /\ UNCHANGED call_args

NextHex == CallHexToRgb /\ UNCHANGED <<engVars, appVars, renVars, expVars>>

SpecHex == InitHex /\ [][NextHex]_vars

(***************************************************************************)
(* SpecAlpha: hex_to_rgba called on opacities inside and outside 0..1      *)
(***************************************************************************)
\* how far below 0 and above 1 the opacities go, in hundredths
MaxAlphaExcess == 50

AlphaColours == {"#000000", "#1af", "red"}

InitAlpha ==
    /\ \E hex_color \in AlphaColours : \E alpha \in (0 - MaxAlphaExcess)..(100 + MaxAlphaExcess) :
            call_args = [fn |-> "hex_to_rgba", hex_color |-> hex_color, alpha |-> alpha]
    /\ call_out = NotCalled
    /\ InitOthersIdle

CallHexToRgba ==
    /\ call_args.fn = "hex_to_rgba"
    /\ call_out' = hex_to_rgba(call_args.hex_color, call_args.alpha)
    /\ UNCHANGED call_args

NextAlpha == CallHexToRgba /\ UNCHANGED <<engVars, appVars, renVars, expVars>>

SpecAlpha == InitAlpha /\ [][NextAlpha]_vars

(***************************************************************************)
(* SpecPercent: the element geometry computed for every whole percentage   *)
(***************************************************************************)
\* The largest percentage the position and size spin boxes offer.
MaxPercent == 100

InitPercent ==
    /\ \E elem_type \in {"shape", "image", "text"} : \E size \in RendererSizes :
       \E h \in 0..MaxPercent : \E v \in 0..MaxPercent :
            call_args = [fn |-> elem_type,
                         elem |-> [x |-> h, y |-> v, width |-> h, height |-> v],
                         width |-> size[1], height |-> size[2]]
    /\ call_out = NotCalled
    /\ InitOthersIdle

CallShapeGeometry ==
    /\ call_args.fn = "shape"
    /\ call_out' = Returned(ShapeGeometry(call_args.elem, call_args.width, call_args.height))
    /\ UNCHANGED call_args

CallImageGeometry ==
    /\ call_args.fn = "image"
    /\ call_out' = Returned(ImageGeometry(call_args.elem, call_args.width, call_args.height))
    /\ UNCHANGED call_args

CallTextGeometry ==
    /\ call_args.fn = "text"
    /\ call_out' = Returned(TextGeometry(call_args.elem, call_args.width, call_args.height))
    /\ UNCHANGED call_args

NextPercent ==
    \/ CallShapeGeometry /\ UNCHANGED <<engVars, appVars, renVars, expVars>>
    \/ CallImageGeometry /\ UNCHANGED <<engVars, appVars, renVars, expVars>>
    \/ CallTextGeometry /\ UNCHANGED <<engVars, appVars, renVars, expVars>>

SpecPercent == InitPercent /\ [][NextPercent]_vars

(***************************************************************************)
(* SpecGradient: create_gradient called on renderers of small sizes and of *)
(* the two sizes the program constructs                                    *)
(***************************************************************************)
\* largest width and height among the small renderer sizes
MaxGradientSide == 4

GradientColours == {"#000000", "#ffffff", "#1af", "red"}

Directions == {"vertical", "horizontal", "diagonal"}

InitGradient ==
    /\ \E color1 \in GradientColours : \E color2 \in GradientColours :
       \E direction \in Directions :
       \E size \in RendererSizes \cup ((1..MaxGradientSide) \X (1..MaxGradientSide)) :
            call_args = [fn |-> "create_gradient", color1 |-> color1, color2 |-> color2,
                         direction |-> direction, width |-> size[1], height |-> size[2]]
    /\ call_out = NotCalled
    /\ InitOthersIdle

CallCreateGradient ==
    /\ call_args.fn = "create_gradient"
    /\ call_out' = create_gradient(call_args.color1, call_args.color2, call_args.direction,
                                   call_args.width, call_args.height)
    /\ UNCHANGED call_args

NextGradient == CallCreateGradient /\ UNCHANGED <<engVars, appVars, renVars, expVars>>

SpecGradient == InitGradient /\ [][NextGradient]_vars

(***************************************************************************)
(* SpecFit: the resize of an image element for every fit mode, on small    *)
(* sources and boxes and on those of the renderer sizes                    *)
(***************************************************************************)
\* largest width and height among the small sources and boxes
MaxImageSide == 9

SmallSizes == (1..MaxImageSide) \X (1..MaxImageSide)

\* width and height of an image element, in percent of the page
FitPercents == {25, 50, 100}

FitSources == SmallSizes \cup RendererSizes

FitTargets ==
    SmallSizes \cup {<<PercentToPx(p, size[1]), PercentToPx(p, size[2])>> :
                        p \in FitPercents, size \in RendererSizes}

InitFit ==
    /\ \E source \in FitSources : \E target \in FitTargets : \E fit_mode \in FitModes :
            call_args = [fn |-> "fit", source |-> source, target |-> target,
                         fit_mode |-> fit_mode]
    /\ call_out = NotCalled
    /\ InitOthersIdle

CallFitResize ==
    /\ call_args.fn = "fit"
    /\ call_out = NotCalled
    /\ \E out \in FitResize(call_args.source, call_args.target, call_args.fit_mode) :
            call_out' = Returned(out)
    /\ UNCHANGED call_args

NextFit == CallFitResize /\ UNCHANGED <<engVars, appVars, renVars, expVars>>

SpecFit == InitFit /\ [][NextFit]_vars

(***************************************************************************)
(* SpecText: the horizontal layout of a text element for every alignment   *)
(* and every list of line widths                                           *)
(***************************************************************************)
\* most lines of a text
MaxLines == 2

\* widest line, in pixels
MaxLineWidth == 6

\* x of a text element, in percent of the page width
TextPercents == {0, 50, 100}

InitText ==
    /\ \E n \in 1..MaxLines : \E line_widths \in [1..n -> 0..MaxLineWidth] :
       \E alignment \in Alignments : \E p \in TextPercents : \E size \in RendererSizes :
            call_args = [fn |-> "text_layout", line_widths |-> line_widths,
                         alignment |-> alignment,
                         x |-> TextGeometry([x |-> p, y |-> p], size[1], size[2]).x]
    /\ call_out = NotCalled
    /\ InitOthersIdle

CallTextLayout ==
    /\ call_args.fn = "text_layout"
    /\ call_out' = Returned(TextLayout(call_args.line_widths, call_args.alignment,
                                       call_args.x))
    /\ UNCHANGED call_args

NextText == CallTextLayout /\ UNCHANGED <<engVars, appVars, renVars, expVars>>

SpecText == InitText /\ [][NextText]_vars

(***************************************************************************)
(* SpecRenderFaults: a page whose colours, gradient and image sources are  *)
(* whatever the document holds, rendered as constructed and after each     *)
(* element added                                                           *)
(***************************************************************************)
\* most elements put on the page
MaxFaultElements == 2

\* background colours: the default, a string that is no colour, a string of
\* eight hex digits
FaultBackgrounds == {"#ffffff", "red", "#aabbccdd"}

\* (color1, color2, direction)
FaultGradients ==
    {<<"#000000", "#ffffff", "vertical">>, <<"#1af", "#000000", "horizontal">>,
     <<"#ffffff", "#1af", "diagonal">>, <<"red", "#aabbccdd", "vertical">>}

\* (fill_color, stroke_color, stroke_width) of a shape
FaultShapePaints ==
    {<<"#1af", "#000000", 1>>, <<"transparent", "red", 0>>, <<"transparent", "red", 1>>,
     <<"#aabbccdd", "#000000", 0>>}

\* (image_path, image_data) of an image element
FaultImageSources ==
    {<<"", "">>, <<"gone.png", "">>, <<"corrupt.png", "png">>, <<"photo.png", "">>,
     <<"", "corrupt">>}

FaultTextColours == {"#000000", "red"}

FaultLayers == {0, 1}

\* PageData(background_color=..., background_gradient=...) rendered
InitRenderFaults ==
    /\ \E color \in FaultBackgrounds : \E gradient \in FaultGradients \cup {NoGradient} :
            ren_page = [PageData EXCEPT !.background_color = color,
                                        !.background_gradient = gradient]
    /\ ren_out = render_page(ren_page)
    /\ InitEditorIdle
    /\ InitEngineIdle
    /\ InitExportIdle
    /\ InitCallIdle

\* An element appended to its collection of the page, then
\* render_page(page)
PageAddShape(layer, paint) ==
    /\ ElementCount(ren_page) < MaxFaultElements
    /\ ren_page' = [ren_page EXCEPT !.shape_elements =
            Append(@, NewShape(ElementCount(ren_page) + 1, layer, TRUE,
                               paint[1], paint[2], paint[3]))]
    /\ ren_out' = render_page(ren_page')

PageAddImage(layer, source) ==
    /\ ElementCount(ren_page) < MaxFaultElements
    /\ ren_page' = [ren_page EXCEPT !.image_elements =
            Append(@, NewImage(ElementCount(ren_page) + 1, layer, TRUE, source[1], source[2]))]
    /\ ren_out' = render_page(ren_page')

PageAddText(layer, font_color) ==
    /\ ElementCount(ren_page) < MaxFaultElements
    /\ ren_page' = [ren_page EXCEPT !.text_elements =
            Append(@, NewText(ElementCount(ren_page) + 1, layer, TRUE, font_color))]
    /\ ren_out' = render_page(ren_page')

NextRenderFaults ==
    \/ \E layer \in FaultLayers, paint \in FaultShapePaints :
            PageAddShape(layer, paint) /\ UNCHANGED <<engVars, appVars, expVars, callVars>>
    \/ \E layer \in FaultLayers, source \in FaultImageSources :
            PageAddImage(layer, source) /\ UNCHANGED <<engVars, appVars, expVars, callVars>>
    \/ \E layer \in FaultLayers, font_color \in FaultTextColours :
            PageAddText(layer, font_color) /\ UNCHANGED <<engVars, appVars, expVars, callVars>>

SpecRenderFaults == InitRenderFaults /\ [][NextRenderFaults]_vars

(***************************************************************************)
(* SpecRerender: a page rendered again and again by the preview renderer,  *)
(* with the files on disk as they are                                      *)
(***************************************************************************)
\* most elements put on the page
MaxRerenderElements == 2

\* most renders of the page between two changes of it
MaxRenders == 2

\* Faulty variant: the page's own list of shapes is sorted in place.
PageAfterRender_sortedinplace(page) ==
    [page EXCEPT !.shape_elements =
        [k \in DOMAIN page.shape_elements |->
            SortByLayer(CollectElements([page EXCEPT !.image_elements = <<>>,
                                                     !.text_elements = <<>>]))[k].elem]]

\* The page after render_page(page): the method reads the page's fields
\* and sorts a list of its own; it assigns to no field of the page or of an
\* element.
PageAfterRender(page) == page

RerenderBackgrounds == {"#ffffff", "#1af", "red"}

InitRerender ==
    /\ \E color \in RerenderBackgrounds :
       \E gradient \in {NoGradient, <<"#000000", "#ffffff", "diagonal">>} :
            call_args = [fn |-> "render_page",
                         page |-> [PageData EXCEPT !.background_color = color,
                                                   !.background_gradient = gradient],
                         before |-> PageData]
    /\ call_out = <<>>
    /\ InitOthersIdle

\* an element appended to one of the page's collections
RerenderAddElement(collection, elem) ==
    /\ call_args.fn = "render_page"
    /\ ElementCount(call_args.page) < MaxRerenderElements
    /\ call_args' = [call_args EXCEPT !.page[collection] = Append(@, elem)]
    /\ call_out' = <<>>

\* render_page(page); `before` keeps the page as the first render after a
\* change found it
CallRenderPage ==
    /\ call_args.fn = "render_page"
    /\ Len(call_out) < MaxRenders
    /\ call_out' = Append(call_out, render_page(call_args.page))
    /\ call_args' = [call_args EXCEPT
            !.page = PageAfterRender(@),
            !.before = IF call_out = <<>> THEN call_args.page ELSE @]

NextRerender ==
    \/ \E layer \in FaultLayers, paint \in {<<"#1af", "#000000", 1>>, <<"transparent", "red", 1>>} :
            RerenderAddElement("shape_elements",
                NewShape(ElementCount(call_args.page) + 1, layer, TRUE,
                         paint[1], paint[2], paint[3]))
            /\ UNCHANGED <<engVars, appVars, renVars, expVars>>
    \/ \E layer \in FaultLayers, source \in {<<"photo.png", "">>, <<"corrupt.png", "png">>} :
            RerenderAddElement("image_elements",
                NewImage(ElementCount(call_args.page) + 1, layer, TRUE, source[1], source[2]))
            /\ UNCHANGED <<engVars, appVars, renVars, expVars>>
    \/ \E layer \in FaultLayers, font_color \in FaultTextColours :
            RerenderAddElement("text_elements",
                NewText(ElementCount(call_args.page) + 1, layer, TRUE, font_color))
            /\ UNCHANGED <<engVars, appVars, renVars, expVars>>
    \/ CallRenderPage /\ UNCHANGED <<engVars, appVars, renVars, expVars>>

SpecRerender == InitRerender /\ [][NextRerender]_vars

(***************************************************************************)
(* SpecExport: the two batch exports over a document some of whose pages   *)
(* hold a background colour that render_page cannot parse                  *)
(***************************************************************************)
ExportBackgrounds == {"#ffffff", "red"}

InitExport ==
    /\ \E page_count \in PageCountChoices :
       \E colours \in [1..page_count -> ExportBackgrounds] :
            brochure = BrochureData(page_count,
                            [k \in 1..page_count |->
                                [PageData EXCEPT !.background_color = colours[k]]])
    /\ current_page_index = 0
    /\ preview_mode = "single"
    /\ canvas_size = <<1, 1>>
    /\ display = Cleared
    /\ page_label = "Page 1 of 4"
    /\ pdf = NoPdf
    /\ selected_element = NoSelection
    /\ elements_listbox = <<>>
    /\ props_element = NoProps
    /\ InitExportIdle
    /\ InitEngineIdle
    /\ InitRenderIdle
    /\ InitCallIdle

NextExport ==
    \/ ExportPdf /\ UNCHANGED <<engVars, renVars, callVars>>
    \/ ExportImages /\ UNCHANGED <<engVars, renVars, callVars>>

SpecExport == InitExport /\ [][NextExport]_vars

(***************************************************************************)
(* Claims about the imposition engine (checked under SpecImposition)       *)
(***************************************************************************)
\* The print-order table of the documentation, written out as a fixture.
PrintOrderTable(n) ==
    CASE n = 1 -> << <<0, -1>> >>
      [] n = 2 -> << <<1, 0>> >>
      [] n = 4 -> << <<3, 0>>, <<1, 2>> >>
      [] n = 8 -> << <<7, 0>>, <<1, 6>>, <<5, 2>>, <<3, 4>> >>

\* The reading-order table of the documentation, written out as a fixture.
ReadingOrderTable(n) ==
    CASE n = 1 -> << <<0, -1, "Single Page">> >>
      [] n = 2 -> << <<0, 1, "Front & Back">> >>
      [] n = 4 -> << <<3, 0, "Back Cover & Front Cover">>, <<1, 2, "Inside Spread">> >>
      [] n = 8 -> << <<7, 0, "Back Cover & Front Cover">>,
                     <<1, 2, "First Inside Spread">>,
                     <<3, 4, "Center Spread">>,
                     <<5, 6, "Last Inside Spread">> >>

\* C1: for n in {1,2,4,8} get_imposition_order(n) returns exactly the
\* print-order table, pairs in list order.
C1_PrintOrderMatchesTable ==
    (eng_order.called /\ eng_n \in {1, 2, 4, 8})
        => (eng_order.raised = "" /\ eng_order.value = PrintOrderTable(eng_n))

\* C1 witness: the 8-page print order has been computed.
C1_Witness == eng_order.called /\ eng_n = 8 /\ Len(eng_order.value) = 4

\* C2: for n in {1,2,4,8} get_spread_pairs(n) returns exactly the
\* reading-order table, indices and labels.
C2_ReadingOrderMatchesTable ==
    (eng_spreads.called /\ eng_n \in {1, 2, 4, 8})
        => (eng_spreads.raised = "" /\ eng_spreads.value = ReadingOrderTable(eng_n))

\* C2 witness: the 2-page spread list has been computed.
C2_Witness == eng_spreads.called /\ eng_n = 2 /\ Len(eng_spreads.value) = 1

\* The facing pairs a reader sees: the closed booklet laid open shows the
\* back cover beside the front cover; every turn of a leaf then shows the
\* reverse of that leaf beside the face of the next.
FacingPairs(reading) ==
    LET n == Len(reading)
    IN  [k \in 1..(n \div 2) |->
            IF k = 1 THEN <<reading[n], reading[1]>>
            ELSE <<reading[2 * k - 2], reading[2 * k - 1]>>]

\* The index pairs of a spread list, labels dropped.
SpreadIndices(spreads) == [k \in 1..Len(spreads) |-> <<spreads[k][1], spreads[k][2]>>]

\* C3: for page_count = 8, folding the printed sheets of
\* get_imposition_order(8) gives the pages in reading order 0..7, and the
\* facing pairs are the index pairs of get_spread_pairs(8), in order.
C3_FoldReconstructsReadingOrder ==
    (eng_n = 8 /\ eng_folded # <<>>)
        => /\ eng_folded = <<0, 1, 2, 3, 4, 5, 6, 7>>
           /\ FacingPairs(eng_folded) = SpreadIndices(get_spread_pairs(8))

\* C3 witness: the two sheets of the 8-page brochure have been folded.
C3_Witness == eng_n = 8 /\ Len(eng_folded) = 8

\* ceil(n / 2), written without reference to the model's pair count.
CeilHalf(n) == IF n % 2 = 0 THEN n \div 2 ELSE (n \div 2) + 1

\* A list of pairs is the sequential policy for n pages: ceil(n/2) pairs,
\* pair k (counted from 0) is (2k, 2k+1), except that the right element of
\* the last pair is -1 when n is odd; so the last right element is -1 iff
\* n is odd.
IsSequentialPairing(pairs, n) ==
    /\ Len(pairs) = CeilHalf(n)
    /\ \A k \in 1..Len(pairs) :
        /\ pairs[k][1] = 2 * (k - 1)
        /\ pairs[k][2] = IF k = Len(pairs) /\ n % 2 = 1 THEN -1 ELSE 2 * (k - 1) + 1
    /\ (pairs[Len(pairs)][2] = -1) <=> (n % 2 = 1)

\* C4: for every positive n outside {1,2,4,8} both functions return the
\* sequential pairing: ceil(n/2) pairs, pair k = (2k, 2k+1), the last right
\* element -1 iff n is odd.
C4_GenericFallbackIsSequential ==
    (eng_n \notin {1, 2, 4, 8})
        => /\ eng_order.called
                => (eng_order.raised = "" /\ IsSequentialPairing(eng_order.value, eng_n))
           /\ eng_spreads.called
                => (eng_spreads.raised = ""
                    /\ IsSequentialPairing(SpreadIndices(eng_spreads.value), eng_n))

\* C4 witness: both functions have been called with the odd count 5.
C4_Witness ==
    /\ eng_n = 5
    /\ eng_order.called /\ eng_spreads.called
    /\ Len(eng_order.value) = 3 /\ Len(eng_spreads.value) = 3

C6_LenPagesEqualsPageCount == Len(brochure.pages) = brochure.page_count

\* A page without shapes, images or text, on a white background without
\* gradient.
IsBlankPage(p) ==
    /\ p.shape_elements = <<>>
    /\ p.image_elements = <<>>
    /\ p.text_elements = <<>>
    /\ p.background_color = "#ffffff"
    /\ p.background_gradient = <<>>

\* C7: a page-count change from m to n keeps the common prefix: if n > m,
\* pages 0..m-1 are unchanged and pages m..n-1 are new blank pages; if
\* n < m, exactly the last m-n pages are removed.
C7_PageCountChangeKeepsPrefix ==
    [][LET m == brochure.page_count
           n == brochure'.page_count
       IN  /\ n > m =>
                /\ Len(brochure'.pages) = n
                /\ SubSeq(brochure'.pages, 1, m) = brochure.pages
                /\ \A k \in (m + 1)..n : IsBlankPage(brochure'.pages[k])
           /\ n < m =>
                /\ Len(brochure'.pages) = n
                /\ brochure'.pages = SubSeq(brochure.pages, 1, n)]_vars

\* C7 witness: an 8-page brochure whose first pages carry a template and
\* whose last pages are blank, as a change from 4 to 8 pages leaves it.
C7_Witness ==
    /\ brochure.page_count = 8
    /\ Len(brochure.pages) = 8
    /\ brochure.pages[1].text_elements # <<>>
    /\ brochure.pages[4].text_elements # <<>>
    /\ IsBlankPage(brochure.pages[5])
    /\ IsBlankPage(brochure.pages[8])

\* The page drawn at horizontal position x of a PDF sheet, -1 if none.
SheetPageAt(sheet, x) ==
    IF \E j \in 1..Len(sheet) : sheet[j].op = "drawImage" /\ sheet[j].x = x
    THEN sheet[CHOOSE j \in 1..Len(sheet) : sheet[j].op = "drawImage" /\ sheet[j].x = x].page
    ELSE -1

\* Number of page images on a PDF sheet.
SheetImageCount(sheet) == Cardinality({j \in 1..Len(sheet) : sheet[j].op = "drawImage"})

\* C9: the PDF holds exactly one sheet per pair of
\* get_imposition_order(page_count), in list order: sheet i shows the left
\* page of pair i in its left half and the right page in its right half,
\* and nothing else; no sheet is missing, duplicated or trailing.
C9_PdfFollowsPrintOrder ==
    pdf.written =>
        LET order == get_imposition_order(pdf.page_count)
        IN  /\ Len(pdf.sheets) = Len(order)
            /\ \A i \in 1..Len(order) :
                /\ SheetPageAt(pdf.sheets[i], 0) = order[i][1]
                /\ SheetPageAt(pdf.sheets[i], A4_LANDSCAPE_WIDTH \div 2) = order[i][2]
                /\ SheetImageCount(pdf.sheets[i])
                       = Cardinality({order[i][1], order[i][2]} \ {-1})

\* C9 witness: a 2-page brochure exported; its one sheet shows page 1 on
\* the left and page 0 on the right, the print order and not the reading
\* order.
C9_Witness ==
    /\ pdf.written
    /\ pdf.page_count = 2
    /\ Len(pdf.sheets) = 1
    /\ SheetPageAt(pdf.sheets[1], 0) = 1

\* The pair a two-page display was drawn for.
DisplayedPair ==
    IF display.source = "reading"
    THEN LET sp == get_spread_pairs(brochure.page_count)[display.pair_index + 1]
         IN  <<sp[1], sp[2]>>
    ELSE get_imposition_order(brochure.page_count)[display.pair_index + 1]

\* Both halves of the display show the pages of the pair, -1 as a blank
\* half.
DisplayShowsPair ==
    /\ display.left.page = DisplayedPair[1]
    /\ display.right.page = DisplayedPair[2]
    /\ display.left.width = display.page_width
    /\ display.right.width = display.page_width

\* Every sheet of the PDF is two adjacent halves, each of half the sheet
\* width.
PdfHalvesAdjacent ==
    pdf.written =>
        \A i \in 1..Len(pdf.sheets) : \A j \in 1..Len(pdf.sheets[i]) :
            pdf.sheets[i][j].op = "drawImage" =>
                /\ pdf.sheets[i][j].x \in {0, pdf.sheets[i][j].width}
                /\ 2 * pdf.sheets[i][j].width = A4_LANDSCAPE_WIDTH

CollectionRank(entry) ==
    LET pos(seq) == CHOOSE k \in 1..Len(seq) : seq[k].id = entry.elem.id
    IN  IF entry.elem_type = "shape" THEN pos(ren_page.shape_elements)
        ELSE IF entry.elem_type = "image"
        THEN Len(ren_page.shape_elements) + pos(ren_page.image_elements)
        ELSE Len(ren_page.shape_elements) + Len(ren_page.image_elements)
                + pos(ren_page.text_elements)

\* All elements of the page, whatever their collection.
PageElements ==
    {ren_page.shape_elements[k] : k \in 1..Len(ren_page.shape_elements)}
    \cup {ren_page.image_elements[k] : k \in 1..Len(ren_page.image_elements)}
    \cup {ren_page.text_elements[k] : k \in 1..Len(ren_page.text_elements)}

\* C8: render_page composites every element of the three collections once,
\* in ascending layer_index, elements of equal layer_index in a stable
\* order; so where opaque elements overlap, the pixel shows an element of
\* the highest layer_index among them, never one of a lower layer_index,
\* whatever the collections and the order of insertion.
C8_CompositedInLayerOrder ==
    LET order == ren_out.order
    IN  /\ Len(order) = Cardinality(PageElements)
        /\ {order[k].elem : k \in 1..Len(order)} = PageElements
        /\ \A i, j \in 1..Len(order) :
            i < j => /\ order[i].elem.layer_index <= order[j].elem.layer_index
                     /\ order[i].elem.layer_index = order[j].elem.layer_index
                            => CollectionRank(order[i]) < CollectionRank(order[j])
        /\ LET covering == {e \in PageElements : e.covers}
           IN  IF covering = {} THEN ren_out.pixel = 0
               ELSE \E top \in covering :
                        /\ ren_out.pixel = top.id
                        /\ \A e \in covering : e.layer_index <= top.layer_index

\* C8 witness: an opaque text element of layer -1 added after an opaque
\* shape of layer 1 is composited first, and the pixel shows the shape.
C8_Witness ==
    /\ Len(ren_page.shape_elements) >= 1
    /\ Len(ren_page.text_elements) >= 1
    /\ ren_page.shape_elements[1].covers
    /\ ren_page.shape_elements[1].layer_index = 1
    /\ ren_page.text_elements[1].covers
    /\ ren_page.text_elements[1].layer_index = -1
    /\ ren_page.text_elements[1].id > ren_page.shape_elements[1].id
    /\ ren_out.order[1].elem_type = "text"
    /\ ren_out.pixel = ren_page.shape_elements[1].id

(***************************************************************************)
(* Claims about the colour and geometry utilities                          *)
(***************************************************************************)
\* s without one leading '#'
StripOneHash(s) == IF Len(s) > 0 /\ SubSeq(s, 1, 1) = "#" THEN SubSeq(s, 2, Len(s)) ELSE s

AllHexDigits(s) == \A k \in 1..Len(s) : IsHexDigit(SubSeq(s, k, k))

\* a 3-digit or 6-digit hex colour with an optional leading '#'
IsHexColour(s) == Len(StripOneHash(s)) \in {3, 6} /\ AllHexDigits(StripOneHash(s))

\* the triple a well-formed colour string denotes
HexColourTriple(s) ==
    LET d == StripOneHash(s)
        v(k) == HexDigitValue(SubSeq(d, k, k))
    IN  IF Len(d) = 3 THEN <<17 * v(1), 17 * v(2), 17 * v(3)>>
        ELSE <<16 * v(1) + v(2), 16 * v(3) + v(4), 16 * v(5) + v(6)>>

\* C14: hex_to_rgb returns a triple exactly for the 3-digit and 6-digit hex
\* strings (optional leading '#'), the triple of abc being the one of
\* aabbcc, and fails for every string of another length or with a character
\* that is no hex digit.
C14_ParserAcceptsExactlyHexColours ==
    (call_args.fn = "hex_to_rgb" /\ call_out.called) =>
        IF IsHexColour(call_args.hex_color)
        THEN call_out.raised = "" /\ call_out.value = HexColourTriple(call_args.hex_color)
        ELSE call_out.raised # ""

\* r is a nearest integer to num / den (den > 0), whichever way a tie goes
RoundsTo(r, num, den) ==
    /\ 2 * (r * den - num) <= den
    /\ 2 * (num - r * den) <= den

Clamp(v, lo, hi) == IF v < lo THEN lo ELSE IF v > hi THEN hi ELSE v

\* C16: the alpha hex_to_rgba attaches is round(opacity * 255) clamped to
\* [0, 255], for opacities below 0 and above 1 too, so always an integer
\* in 0..255.
C16_AlphaRoundedAndClamped ==
    (call_args.fn = "hex_to_rgba" /\ call_out.called /\ call_out.raised = "") =>
        /\ call_out.value[4] \in 0..255
        /\ \E r \in {(call_args.alpha * 255) \div 100, (call_args.alpha * 255) \div 100 + 1} :
                /\ RoundsTo(r, call_args.alpha * 255, 100)
                /\ call_out.value[4] = Clamp(r, 0, 255)

\* C15: every percentage-to-pixel conversion of an element's geometry is
\* round(value / 100 * extent): x and width against the page width, y and
\* height against the page height.
C15_PercentToPxRounds ==
    (call_args.fn \in {"shape", "image", "text"} /\ call_out.called) =>
        /\ RoundsTo(call_out.value.x, call_args.elem.x * call_args.width, 100)
        /\ RoundsTo(call_out.value.y, call_args.elem.y * call_args.height, 100)
        /\ call_args.fn # "text" =>
                /\ RoundsTo(call_out.value.w, call_args.elem.width * call_args.width, 100)
                /\ RoundsTo(call_out.value.h, call_args.elem.height * call_args.height, 100)

\* every channel of a is within 1 of the channel of b
Within1(a, b) == \A k \in 1..3 : a[k] - b[k] \in {-1, 0, 1}

\* C17: a vertical gradient (colorA, colorB) at any height >= 2 has colorA
\* in the top row and colorB, within 1 per channel, in the bottom row; a
\* horizontal gradient has them in the first and the last column at any
\* width >= 2.
C17_GradientEndsAtColorB ==
    (call_args.fn = "create_gradient" /\ call_out.called /\ call_out.raised = ""
            /\ IsHexColour(call_args.color1) /\ IsHexColour(call_args.color2)) =>
        /\ (call_args.direction = "vertical" /\ call_args.height >= 2) =>
                /\ call_out.value.tl = HexColourTriple(call_args.color1)
                /\ call_out.value.tr = HexColourTriple(call_args.color1)
                /\ Within1(call_out.value.bl, HexColourTriple(call_args.color2))
                /\ Within1(call_out.value.br, HexColourTriple(call_args.color2))
        /\ (call_args.direction = "horizontal" /\ call_args.width >= 2) =>
                /\ call_out.value.tl = HexColourTriple(call_args.color1)
                /\ call_out.value.bl = HexColourTriple(call_args.color1)
                /\ Within1(call_out.value.tr, HexColourTriple(call_args.color2))
                /\ Within1(call_out.value.br, HexColourTriple(call_args.color2))

(***************************************************************************)
(* Claims about render_page with malformed content (SpecRenderFaults)      *)
(***************************************************************************)
\* The colour strings render_page uses on a page.
UsedColours(page) ==
    (IF page.background_gradient # NoGradient
     THEN {page.background_gradient[1], page.background_gradient[2]}
     ELSE {page.background_color})
    \cup {page.shape_elements[k].fill_color :
            k \in {j \in 1..Len(page.shape_elements) :
                        page.shape_elements[j].fill_color # "transparent"}}
    \cup {page.shape_elements[k].stroke_color :
            k \in {j \in 1..Len(page.shape_elements) :
                        page.shape_elements[j].stroke_width > 0}}
    \cup {page.text_elements[k].font_color : k \in 1..Len(page.text_elements)}

\* an image element that nothing can be loaded for
Unloadable(entry) == entry.elem_type = "image" /\ ImageSource(entry.elem) # "loaded"

\* The paint the probe pixel shows when every entry but the unloadable
\* images is composited in the order given: the last covering one.
TopPaint(order) ==
    LET painting == {k \in 1..Len(order) : order[k].elem.covers /\ ~Unloadable(order[k])}
    IN  IF painting = {} THEN 0
        ELSE order[CHOOSE k \in painting : \A j \in painting : j <= k].elem.id

\* C12: render_page never fails because of an image element: when it
\* raises, a colour of the page is unparseable; when it returns, every
\* entry was taken in layer order, an image element without a usable path
\* or data, or with an unreadable source, left the image as it was, and
\* the elements after it were composited.
C12_ImageFailureStaysLocal ==
    /\ ren_out.raised # "" => \E c \in UsedColours(ren_page) : hex_to_rgb(c).raised # ""
    /\ ren_out.raised = "" =>
            /\ ren_out.composited = ElementCount(ren_page)
            /\ Len(ren_out.order) = ElementCount(ren_page)
            /\ ren_out.pixel = TopPaint(ren_out.order)

\* An unloadable image lies below a later element, and the page shows the
\* later element.
C12_Witness ==
    /\ ren_out.raised = ""
    /\ \E k \in 1..Len(ren_out.order) : \E j \in 1..Len(ren_out.order) :
            /\ k < j
            /\ Unloadable(ren_out.order[k])
            /\ ImageSource(ren_out.order[k].elem) = "error"
            /\ ren_out.order[j].elem_type # "image"
            /\ ren_out.pixel = ren_out.order[j].elem.id

\* C13: render_page fails with a colour error, returning no image, whenever
\* a colour string it uses is not a valid 3- or 6-digit hex colour.
C13_InvalidColourFailsRender ==
    (\E c \in UsedColours(ren_page) : ~IsHexColour(c)) =>
        /\ ren_out.raised = "ValueError"
        /\ ren_out.background = NoImage

\* C18: render_page paints the gradient whenever background_gradient is
\* set, whatever background_color holds, and the flat background_color
\* uniformly only when no gradient is set; the background is fully opaque.
C18_GradientWinsOverColour ==
    ren_out.raised = "" =>
        /\ \A c \in DOMAIN ren_out.background : ren_out.background[c][4] = 255
        /\ (ren_page.background_gradient # NoGradient
                /\ IsHexColour(ren_page.background_gradient[1])
                /\ IsHexColour(ren_page.background_gradient[2])) =>
                /\ SubSeq(ren_out.background.tl, 1, 3)
                        = HexColourTriple(ren_page.background_gradient[1])
                /\ Within1(SubSeq(ren_out.background.br, 1, 3),
                           HexColourTriple(ren_page.background_gradient[2]))
        /\ (ren_page.background_gradient = NoGradient
                /\ IsHexColour(ren_page.background_color)) =>
                \A c \in DOMAIN ren_out.background :
                    SubSeq(ren_out.background[c], 1, 3)
                        = HexColourTriple(ren_page.background_color)

\* A page holding a gradient and a background colour other than the
\* gradient's first colour is rendered with the gradient, under an element.
C18_Witness ==
    /\ ren_out.raised = ""
    /\ ren_page.background_gradient # NoGradient
    /\ ren_page.background_color = "#aabbccdd"
    /\ ren_out.background.tl # ren_out.background.br
    /\ ElementCount(ren_page) > 0

(***************************************************************************)
(* Claims about the batch exports (SpecExport)                             *)
(***************************************************************************)
\* the pages (from 1) whose render returns
RenderablePages(b) == {k \in 1..Len(b.pages) : RenderError(b.pages[k]) = ""}

\* C11: a batch export goes on with the remaining pages or sheets after
\* the render of one page fails and reports one outcome per page or sheet:
\* after an export of the images every page that renders has its file,
\* after an export of the PDF the file is written, and when a page failed
\* the report has one entry per page (images) or per sheet (PDF).
C11_BatchExportContinues ==
    Len(export_message) > 0 =>
        /\ export_message[1].export = "images" =>
                /\ \A k \in RenderablePages(brochure) :
                        \E j \in 1..Len(image_files) : image_files[j] = k
                /\ RenderablePages(brochure) # 1..Len(brochure.pages) =>
                        Len(export_message) = Len(brochure.pages)
        /\ export_message[1].export = "pdf" =>
                /\ pdf.written
                /\ RenderablePages(brochure) # 1..Len(brochure.pages) =>
                        Len(export_message) = Len(get_imposition_order(brochure.page_count))

(***************************************************************************)
(* Claims about the image fit modes (SpecFit)                              *)
(***************************************************************************)
\* the side `scaled` is within a pixel of side * num / den
WithinAPixel(scaled, side, num, den) ==
    /\ (scaled - 1) * den < side * num
    /\ side * num < (scaled + 1) * den

\* size is the source scaled by one factor in both directions, up to the
\* rounding of a side to whole pixels
UniformScale(source, size) ==
    \/ WithinAPixel(size[2], source[2], size[1], source[1])
    \/ WithinAPixel(size[1], source[1], size[2], source[2])

\* C19: for every source size and every box of at least 1 x 1, stretch
\* gives exactly the box; contain gives a size inside the box with the
\* source's aspect ratio; cover gives exactly the box, cut at the centre
\* out of the source scaled uniformly so that it fills the box.
C19_FitModesSizeTheBox ==
    (call_args.fn = "fit" /\ call_out.called) =>
        LET out == call_out.value
            source == call_args.source
            target == call_args.target
        IN  /\ call_args.fit_mode = "stretch" => out.size = target
            /\ call_args.fit_mode = "contain" =>
                    /\ out.size[1] <= target[1]
                    /\ out.size[2] <= target[2]
                    /\ UniformScale(source, out.size)
            /\ call_args.fit_mode = "cover" =>
                    /\ out.size = target
                    /\ UniformScale(source, out.scaled)
                    /\ out.scaled[1] >= target[1]
                    /\ out.scaled[2] >= target[2]
                    /\ out.crop[1] = (out.scaled[1] - target[1]) \div 2
                    /\ out.crop[2] = (out.scaled[2] - target[2]) \div 2
                    /\ out.crop[1] >= 0
                    /\ out.crop[2] >= 0
                    /\ out.crop[3] <= out.scaled[1]
                    /\ out.crop[4] <= out.scaled[2]

(***************************************************************************)
(* Claims about the text layout (SpecText)                                 *)
(***************************************************************************)
\* C20: every line of an unrotated text element at pixel position x is
\* placed by the alignment: a left-aligned line starts at x, a centred line
\* has its middle on x (to the pixel), a right-aligned line ends at x,
\* whatever the widths of the lines.
C20_LinesAlignedOnX ==
    (call_args.fn = "text_layout" /\ call_out.called) =>
        \A i \in 1..Len(call_out.value.lines) :
            LET line == call_out.value.lines[i]
                x == call_args.x
            IN  /\ call_args.alignment = "left" => line.start = x
                /\ call_args.alignment = "center" =>
                        /\ line.start + line.end >= 2 * x - 1
                        /\ line.start + line.end <= 2 * x + 1
                /\ call_args.alignment = "right" => line.end = x

C22_PageIndexInRange ==
    /\ 0 <= current_page_index
    /\ current_page_index < brochure.page_count
    /\ current_page_index < Len(brochure.pages)

\* The last of two pages is shown after a page-count change from four, a
\* template and a selection of an element added there.
C22_Witness ==
    /\ brochure.page_count = 2
    /\ current_page_index = 1
    /\ brochure.template_name = "Modern Minimal"
    /\ selected_element # NoSelection
    /\ Len(brochure.pages[2].image_elements) > 0

(***************************************************************************)
(* C23: Delete Selected removes only an element the user selected on the   *)
(* page currently displayed: a step of _delete_selected_element that takes *)
(* an element off a page happens only while the element selected last (the *)
(* one the properties panel is bound to) is still part of the page shown.  *)
(* After navigating to another page or applying a template without         *)
(* selecting again, the handler removes nothing.                           *)
(***************************************************************************)
C23_DeleteRemovesOnlyTheSelected ==
    [][(selected_element # NoSelection /\ selected_element' = NoSelection
            /\ brochure' # brochure)
        => (props_element.state = "attached" /\ props_element.page = current_page_index)]_vars

(***************************************************************************)
(* C24: for every n >= 1 the pairs of get_imposition_order(n) contain      *)
(* every page index 0..n-1 exactly once, and so do the pairs of            *)
(* get_spread_pairs(n); the only other value is -1, which occurs at most   *)
(* once, as the right element of a pair, and only when n is odd.           *)
(***************************************************************************)
\* The places (pair, side) of a list of pairs that hold the value v
PlacesOf(pairs, v) == {place \in (1..Len(pairs)) \X {1, 2} : pairs[place[1]][place[2]] = v}

\* Every index of 0..n-1 in exactly one place, nothing else but -1, and -1
\* in at most one place, a right one, of an odd n
EachPageOnce(pairs, n) ==
    /\ \A v \in 0..(n - 1) : Cardinality(PlacesOf(pairs, v)) = 1
    /\ \A k \in 1..Len(pairs) : pairs[k][1] \in 0..(n - 1) /\ pairs[k][2] \in (-1)..(n - 1)
    /\ Cardinality(PlacesOf(pairs, -1)) <= 1
    /\ PlacesOf(pairs, -1) # {} => n % 2 = 1

C24_EachPageOnce ==
    /\ eng_order.called => eng_order.raised = "" /\ EachPageOnce(eng_order.value, eng_n)
    /\ eng_spreads.called => eng_spreads.raised = "" /\ EachPageOnce(eng_spreads.value, eng_n)

\* Both lists were computed for seven pages and for eight: the odd count
\* has its blank half in the last pair.
C24_Witness ==
    /\ eng_order.called /\ eng_spreads.called
    /\ eng_n = 7
    /\ eng_order.value[4] = <<6, -1>>
    /\ eng_spreads.value[4][2] = -1

(***************************************************************************)
(* C25: for the page counts 4 and 8 every page lies on the same side in    *)
(* the print order as in the reading order: a page index is a left element *)
(* of a pair of get_imposition_order(n) if and only if it is a left        *)
(* element of a pair of get_spread_pairs(n).  For 2 pages the sides are    *)
(* exchanged: page 1 is printed on the left and read on the right.         *)
(***************************************************************************)
\* The page indices in the left places of a list of pairs
LeftPages(pairs) == {pairs[k][1] : k \in 1..Len(pairs)}

\* The page indices in the right places of a list of pairs
RightPages(pairs) == {pairs[k][2] : k \in 1..Len(pairs)}

C25_SameSideForFourAndEight ==
    (eng_order.called /\ eng_spreads.called) =>
        /\ eng_n \in {4, 8} => LeftPages(eng_order.value) = LeftPages(eng_spreads.value)
        /\ eng_n = 2 => /\ LeftPages(eng_order.value) = RightPages(eng_spreads.value)
                        /\ RightPages(eng_order.value) = LeftPages(eng_spreads.value)

\* Both lists were computed for eight pages.
C25_Witness ==
    /\ eng_order.called /\ eng_spreads.called
    /\ eng_n = 8
    /\ LeftPages(eng_order.value) = {1, 3, 5, 7}

\* C25 as stated, for every first-class count above one: the left pages of
\* the two orders are the same for 2, 4 and 8 pages.
C25_SameSideForEveryCount ==
    (eng_order.called /\ eng_spreads.called /\ eng_n \in {2, 4, 8}) =>
        LeftPages(eng_order.value) = LeftPages(eng_spreads.value)

(***************************************************************************)
(* C26: in print-layout preview every pair of                              *)
(* get_imposition_order(page_count), front sides and back sides alike, can *)
(* be displayed: browsing a document of 1, 2, 4 or 8 pages from the first  *)
(* page to the last, each pair index k of the print order is shown by      *)
(* _render_print_preview at some page.                                     *)
(***************************************************************************)
C26_EveryPrintPairShown ==
    \A k \in 0..3 :
        (preview_mode = "print" /\ k < Len(get_imposition_order(brochure.page_count)))
            => <>(display.mode = "print" /\ display.pair_index = k)

(***************************************************************************)
(* C27: in spread preview, for the page counts 1, 2, 4 and 8 and every     *)
(* page index reached, the spread displayed is a valid index of            *)
(* get_spread_pairs(page_count) and it is the spread whose label           *)
(* _update_page_label shows; browsing from the first page to the last,     *)
(* every spread of the reading order is displayed at some page.            *)
(***************************************************************************)
\* The spread on the canvas is one of the list, and the label is its own.
SpreadShownIsLabelled ==
    preview_mode = "spread" =>
        /\ display.mode = "spread"
        /\ display.pair_index \in 0..(Len(get_spread_pairs(brochure.page_count)) - 1)
        /\ page_label = get_spread_pairs(brochure.page_count)[display.pair_index + 1][3]
        /\ display.left.page = get_spread_pairs(brochure.page_count)[display.pair_index + 1][1]

C27_EverySpreadShownAndLabelled ==
    /\ []SpreadShownIsLabelled
    /\ \A k \in 0..3 :
            (preview_mode = "spread" /\ k < Len(get_spread_pairs(brochure.page_count)))
                => <>(display.mode = "spread" /\ display.pair_index = k)

\* The last page of eight in spread preview: the fourth spread is shown.
C27_Witness ==
    /\ preview_mode = "spread"
    /\ brochure.page_count = 8
    /\ current_page_index = 7
    /\ display.pair_index = 3
    /\ page_label = "Last Inside Spread"

(***************************************************************************)
(* C28: applying a non-blank template determines every page's rendered     *)
(* background, shapes and text from the template, the page's position and  *)
(* the page count alone: after any earlier template applications and       *)
(* page-count changes, each page renders the background and holds the      *)
(* shapes and text the template gives the page at that position of a new   *)
(* document of the same page count.                                        *)
(***************************************************************************)
\* The background rendered at the preview size, the shapes and the text of
\* a page are those of the page fresh
RendersLike(page, fresh) ==
    /\ RenderBackground(page, A5_PREVIEW_WIDTH, A5_PREVIEW_HEIGHT)
           = RenderBackground(fresh, A5_PREVIEW_WIDTH, A5_PREVIEW_HEIGHT)
    /\ page.shape_elements = fresh.shape_elements
    /\ page.text_elements = fresh.text_elements

C28_TemplateAloneDeterminesPages ==
    [][\A template_key \in TemplateChoices \ {"blank"} :
            brochure' = TemplateApply(template_key, brochure) =>
                \A k \in 1..Len(brochure'.pages) :
                    RendersLike(brochure'.pages[k],
                                TemplateApply(template_key, InitializePages(brochure)).pages[k])]_vars

(***************************************************************************)
(* C29: an image added with _import_image gets a layer_index strictly      *)
(* greater than that of every element already on the current page, also on *)
(* a page whose layer indices are all negative, so render_page composites  *)
(* it after all of them: it is the last entry of the sorted list.          *)
(***************************************************************************)
\* The layer_index values of the elements of a page
LayersOn(page) ==
    {page.shape_elements[k].layer_index : k \in 1..Len(page.shape_elements)}
    \cup {page.image_elements[k].layer_index : k \in 1..Len(page.image_elements)}
    \cup {page.text_elements[k].layer_index : k \in 1..Len(page.text_elements)}

\* after is the page before with one more image, which lies above every
\* element of before and is composited last.
ImportedOnTop(before, after) ==
    Len(after.image_elements) = Len(before.image_elements) + 1 =>
        /\ \A layer \in LayersOn(before) :
                layer < after.image_elements[Len(after.image_elements)].layer_index
        /\ SortByLayer(CollectElements(after))[ElementCount(after)].elem_type = "image"
        /\ SortByLayer(CollectElements(after))[ElementCount(after)].elem
               = after.image_elements[Len(after.image_elements)]

C29_ImportedImageOnTop ==
    [][(current_page_index' = current_page_index /\ Len(brochure'.pages) = Len(brochure.pages))
        => ImportedOnTop(brochure.pages[current_page_index + 1],
                         brochure'.pages[current_page_index + 1])]_vars

\* An image imported to a page whose only other element lies on a negative
\* layer: the image is on layer 1.
C29_Witness ==
    \E k \in 1..Len(brochure.pages) :
        /\ Len(brochure.pages[k].image_elements) = 1
        /\ brochure.pages[k].image_elements[1].layer_index = 1
        /\ Len(brochure.pages[k].text_elements) = 1
        /\ brochure.pages[k].text_elements[1].layer_index < 0

(***************************************************************************)
(* C30: row i of the elements list refers to one element throughout: the   *)
(* element _on_element_select resolves for row i is the element whose      *)
(* label _update_elements_list put in row i, and the rows are in the order *)
(* in which render_page composites the elements of the page shown          *)
(* (ascending layer_index, ties in the order shapes, images, text and, in  *)
(* a collection, in collection order).                                     *)
(***************************************************************************)
\* Row i (from 1) of the listbox, the entry resolved for it and the i-th
\* element composited are one element of the page, and the label carries
\* its layer.
RowIsElement(page, rows, composited, i) ==
    /\ ResolveRow(page, i - 1) = <<rows[i].elem_type, rows[i].idx>>
    /\ composited[i].elem_type = rows[i].elem_type
    /\ rows[i].idx < Len(ElementsOf(page, rows[i].elem_type))
    /\ composited[i].elem = ElementsOf(page, rows[i].elem_type)[rows[i].idx + 1]
    /\ SubSeq(rows[i].display_text, 1, Len(LayerTag(composited[i].layer_idx)))
           = LayerTag(composited[i].layer_idx)

RowsAreElements(page, rows, composited) ==
    /\ Len(rows) = Len(composited)
    /\ \A i \in 1..Len(rows) : RowIsElement(page, rows, composited, i)

C30_RowsAreElementsInRenderOrder ==
    RowsAreElements(brochure.pages[current_page_index + 1], elements_listbox,
                    SortByLayer(CollectElements(brochure.pages[current_page_index + 1])))

\* A text element on a negative layer is listed and selected above a shape
\* of layer 0 that comes first in the collections.
C30_Witness ==
    /\ Len(elements_listbox) = 2
    /\ elements_listbox[1].elem_type = "text"
    /\ elements_listbox[2].elem_type = "shape"
    /\ selected_element = <<"text", 0>>
    /\ props_element.page = current_page_index

====
